---- MODULE Spec2Model ----
(***************************************************************************)
(* The SQL query engine of jakob-ledermann/database (crate sql_engine):    *)
(* QueryExecutor (lib.rs), QueryProcessor (query/process.rs),              *)
(* SelectCommand (dml/select.rs) and the session's PreparedStatement and   *)
(* Portal (session/statement.rs).                                          *)
(*                                                                         *)
(* One action per public operation of QueryExecutor.  Every action is one  *)
(* whole call: it replaces `events` by the events the call sent to the     *)
(* sender, in order, and `lastCall` by the call's inputs and result.       *)
(* Values that carry a tag are tuples whose first element is the tag.      *)
(***************************************************************************)
EXTENDS Integers, Sequences, FiniteSets, TLC

VARIABLES
    catalog,    \* storage: Arc<CatalogManager>  [schemas, tables]
    statements, \* session: statement name -> PreparedStatement or NoEntry
    portals,    \* session: portal name -> Portal or NoEntry
    events,     \* what the last call sent on sender, in order
    lastCall,   \* the last call: operation, inputs, injected fault, result
    parsed,     \* history: what the last successful Parse of a name was given
    pad         \* the pad_formats call of specification SpecPad

vars == <<catalog, statements, portals, events, lastCall, parsed, pad>>

(***************************************************************************)
(* Bounds of the model.                                                    *)
(***************************************************************************)
\* rows a table may hold: an INSERT into a full table is not taken
MaxRows == 1
\* longest list of formats, and largest count, handed to pad_formats in SpecPad
MaxFormats == 3

\* records of a table a SELECT scans
MaxScan == 2

\* Option::None of a session lookup
NoEntry == [none |-> TRUE]

Range(s) == {s[i] : i \in DOMAIN s}

(***************************************************************************)
(* Catalog interface (catalog_manager), from the calls the engine makes on *)
(* it: existence checks, column metadata, scans.                           *)
(***************************************************************************)
EmptyCatalog == [schemas |-> {}, tables |-> <<>>]

schema_exists(cat, schema) == schema \in cat.schemas

\* Option<(schema_id, Option<table_id>)>
table_exists(cat, schema, table) ==
    IF schema \notin cat.schemas THEN "None"
    ELSE IF <<schema, table>> \notin DOMAIN cat.tables THEN "SomeNone"
    ELSE "SomeSome"

table_columns(cat, schema, table) == cat.tables[<<schema, table>>].columns

full_scan(cat, schema, table) == cat.tables[<<schema, table>>].rows

WithoutTables(tables, gone) == [k \in DOMAIN tables \ gone |-> tables[k]]

ColumnDefinition(name, sql_type) == [name |-> name, sql_type |-> sql_type]

\* From<&SqlType> for PostgreSqlType: the protocol type of a column
PostgreSqlTypeOf(sql_type) ==
    CASE sql_type[1] = "SmallInt" -> "SmallInt"
      [] sql_type[1] = "Integer" -> "Integer"
      [] sql_type[1] = "BigInt" -> "BigInt"
      [] sql_type[1] = "Char" -> "Char"
      [] sql_type[1] = "VarChar" -> "VarChar"
      [] sql_type[1] = "Bool" -> "Bool"

\* Datum::to_string; a datum is <<"Int", n>> or <<"Null">>
to_string(datum) ==
    CASE datum[1] = "Null" -> "NULL"
      [] datum[2] = 0 -> "0"
      [] datum[2] = 1 -> "1"
      [] datum[2] = 2 -> "2"
      [] datum[2] = 3 -> "3"
      [] OTHER -> "n"

(***************************************************************************)
(* The parser (sqlparser, external).  A text is <<"sql", statements>>,     *)
(* the statements it holds, or <<"garbage", n>>, which no dialect parses.  *)
(***************************************************************************)
IsParam(expr) == expr[1] = "Param"

RECURSIVE CountParams(_)
CountParams(exprs) ==
    IF exprs = <<>> THEN 0
    ELSE (IF IsParam(Head(exprs)) THEN 1 ELSE 0) + CountParams(Tail(exprs))

\* the expressions of a statement in which a parameter may stand
StatementExprs(stmt) ==
    CASE stmt.kind = "Insert" -> stmt.source
      [] stmt.kind = "Update" ->
            [i \in DOMAIN stmt.assignments |-> stmt.assignments[i][2]]
      [] OTHER -> <<>>

Placeholders(stmt) == CountParams(StatementExprs(stmt))

\* Parser::parse_sql(dialect, text): only PreparedStatementDialect reads
\* $n as an identifier
parse_sql(dialect, text) ==
    IF text[1] = "garbage" THEN [ok |-> FALSE, statements |-> <<>>]
    ELSE IF dialect = "PostgreSqlDialect"
            /\ \E i \in DOMAIN text[2] : Placeholders(text[2][i]) > 0
    THEN [ok |-> FALSE, statements |-> <<>>]
    ELSE [ok |-> TRUE, statements |-> text[2]]

\* format!("{}", statement)
FormatStatement(stmt) == <<"sql", <<stmt>>>>

(***************************************************************************)
(* Results of a step of a call: the events it sent, the catalog it left,   *)
(* and how it returned: "Ok", "Err" (a SystemError) or "Panic".            *)
(***************************************************************************)
Outcome(evs, cat, result) == [events |-> evs, catalog |-> cat, result |-> result]

(***************************************************************************)
(* SelectCommand (dml/select.rs).  `fault` names the catalog call that     *)
(* fails with a SystemError during the call, or "none".                    *)
(***************************************************************************)
SelectInput(schema_name, table_name, selected_columns) ==
    [schema_name |-> schema_name, table_name |-> table_name,
     selected_columns |-> selected_columns]

NoInput == SelectInput("", "", <<>>)

InputResult(result, evs, input) ==
    [result |-> result, events |-> evs, input |-> input]

\* the loop over the projection in parse_select_input: a wildcard reads the
\* catalog's columns, an identifier is taken as it is, anything else ends
\* the loop with FeatureNotSupported
RECURSIVE SelectedColumns(_, _, _, _, _, _, _)
SelectedColumns(items, columns, cat, schema_name, table_name, raw_sql_query, fault) ==
    IF items = <<>> THEN
        InputResult("Ok", <<>>, SelectInput(schema_name, table_name, columns))
    ELSE LET item == Head(items) IN
        CASE item[1] = "Wildcard" ->
                IF fault = "table_columns" THEN InputResult("Err", <<>>, NoInput)
                ELSE LET all_columns == table_columns(cat, schema_name, table_name) IN
                     SelectedColumns(Tail(items),
                        columns \o [i \in DOMAIN all_columns |-> all_columns[i].name],
                        cat, schema_name, table_name, raw_sql_query, fault)
          [] item[1] = "Identifier" ->
                SelectedColumns(Tail(items), Append(columns, item[2]),
                    cat, schema_name, table_name, raw_sql_query, fault)
          [] OTHER ->
                InputResult("Err", <<<<"FeatureNotSupported", raw_sql_query>>>>, NoInput)

parse_select_input(raw_sql_query, query, cat, fault) ==
    IF query.body # "Select" THEN
        InputResult("Err", <<<<"FeatureNotSupported", raw_sql_query>>>>, NoInput)
    ELSE IF query.from = <<>> THEN
        \* &from[0] on an empty FROM list
        InputResult("Panic", <<>>, NoInput)
    ELSE LET relation == query.from[1] IN
        IF relation[1] # "Table" THEN
            InputResult("Err", <<<<"FeatureNotSupported", raw_sql_query>>>>, NoInput)
        ELSE IF Len(relation[2]) < 2 THEN
            \* name.0[1] on a name of one segment
            InputResult("Panic", <<>>, NoInput)
        ELSE LET schema_name == relation[2][1]
                 table_name == relation[2][2]
                 found == table_exists(cat, schema_name, table_name)
             IN CASE found = "None" ->
                        InputResult("Err", <<<<"SchemaDoesNotExist", schema_name>>>>, NoInput)
                  [] found = "SomeNone" ->
                        InputResult("Err",
                            <<<<"TableDoesNotExist", <<schema_name, ".", table_name>>>>>>,
                            NoInput)
                  [] OTHER ->
                        SelectedColumns(query.projection, <<>>, cat, schema_name,
                            table_name, raw_sql_query, fault)

\* index of the first column definition that has the name, 0 when none has
IndexOfColumn(all_columns, column_name) ==
    IF \E i \in DOMAIN all_columns : all_columns[i].name = column_name
    THEN CHOOSE i \in DOMAIN all_columns :
            /\ all_columns[i].name = column_name
            /\ \A j \in 1..(i - 1) : all_columns[j].name # column_name
    ELSE 0

\* the indexes (1-based) of the selected columns that exist, in selection order
ColumnIndexes(all_columns, selected_columns) ==
    LET found == [i \in DOMAIN selected_columns |->
                    IndexOfColumn(all_columns, selected_columns[i])]
    IN SelectSeq(found, LAMBDA index : index # 0)

\* faulty variant: only the first unknown column is reported
NonExistingColumns_FirstOnly(all_columns, selected_columns) ==
    LET unknown == SelectSeq(selected_columns,
                        LAMBDA name : IndexOfColumn(all_columns, name) = 0)
    IN IF unknown = <<>> THEN <<>> ELSE <<Head(unknown)>>

NonExistingColumns(all_columns, selected_columns) ==
    SelectSeq(selected_columns, LAMBDA name : IndexOfColumn(all_columns, name) = 0)

DescriptionOf(all_columns, column_indexes) ==
    [j \in DOMAIN column_indexes |->
        <<all_columns[column_indexes[j]].name,
          PostgreSqlTypeOf(all_columns[column_indexes[j]].sql_type)>>]

\* SelectCommand::describe after `self.parse_select_input()?`: the
\* description, or the error that ends it
DescribeInput(parsed_input, cat, fault) ==
    IF parsed_input.result # "Ok" THEN
        [result |-> parsed_input.result, events |-> parsed_input.events,
         description |-> <<>>]
    ELSE IF fault = "table_columns" THEN
        [result |-> "Err", events |-> <<>>, description |-> <<>>]
    ELSE LET input == parsed_input.input
             all_columns == table_columns(cat, input.schema_name, input.table_name)
             non_existing_columns ==
                NonExistingColumns(all_columns, input.selected_columns)
         IN IF non_existing_columns # <<>> THEN
                [result |-> "Err",
                 events |-> <<<<"ColumnDoesNotExist", non_existing_columns>>>>,
                 description |-> <<>>]
            ELSE
                [result |-> "Ok", events |-> <<>>,
                 description |->
                    DescriptionOf(all_columns,
                        ColumnIndexes(all_columns, input.selected_columns))]

\* SelectCommand::describe
describe(raw_sql_query, query, cat, fault) ==
    DescribeInput(parse_select_input(raw_sql_query, query, cat, fault), cat, fault)

\* faulty variant: the selected values are sent in the order of the record
ProjectRow_PhysicalOrder(row, column_indexes) ==
    LET picked == SelectSeq([i \in DOMAIN row |-> i],
                            LAMBDA i : i \in Range(column_indexes))
    IN [j \in DOMAIN picked |-> to_string(row[picked[j]])]

\* the row sent for one record: for each selected index the values of the
\* record at that index
RECURSIVE ProjectRow(_, _)
ProjectRow(row, column_indexes) ==
    IF column_indexes = <<>> THEN <<>>
    ELSE (IF Head(column_indexes) \in DOMAIN row
          THEN <<to_string(row[Head(column_indexes)])>> ELSE <<>>)
         \o ProjectRow(row, Tail(column_indexes))

\* SelectCommand::execute after its call of parse_select_input
ExecuteInput(parsed_input, cat, fault) ==
    IF parsed_input.result = "Panic" THEN Outcome(parsed_input.events, cat, "Panic")
    ELSE IF parsed_input.result = "Err" THEN Outcome(parsed_input.events, cat, "Ok")
    ELSE IF fault = "full_scan" THEN Outcome(<<>>, cat, "Err")
    ELSE IF fault = "table_columns" THEN Outcome(<<>>, cat, "Err")
    ELSE LET input == parsed_input.input
             records == full_scan(cat, input.schema_name, input.table_name)
             all_columns == table_columns(cat, input.schema_name, input.table_name)
             column_indexes == ColumnIndexes(all_columns, input.selected_columns)
             non_existing_columns ==
                NonExistingColumns(all_columns, input.selected_columns)
         IN IF non_existing_columns # <<>> THEN
                Outcome(<<<<"ColumnDoesNotExist", non_existing_columns>>>>, cat, "Ok")
            ELSE IF fault = "record" /\ records # <<>> THEN
                \* Result::unwrap on a record the scan could not read
                Outcome(<<>>, cat, "Panic")
            ELSE
                Outcome(<<<<"RecordsSelected",
                            DescriptionOf(all_columns, column_indexes),
                            [i \in DOMAIN records |->
                                ProjectRow(records[i], column_indexes)]>>>>,
                        cat, "Ok")

\* SelectCommand::execute
SelectExecute(raw_sql_query, query, cat, fault) ==
    ExecuteInput(parse_select_input(raw_sql_query, query, cat, fault), cat, fault)

(***************************************************************************)
(* Name resolver (query::SchemaId, query::TableId): a schema name has      *)
(* exactly one segment, a table name exactly two.                          *)
(***************************************************************************)
SchemaIdTryFrom(object_name) ==
    IF Len(object_name) = 1
    THEN [ok |-> TRUE, name |-> object_name[1], message |-> <<>>]
    ELSE [ok |-> FALSE, name |-> "", message |-> <<"SchemaNamingError", object_name>>]

TableIdTryFrom(object_name) ==
    IF Len(object_name) = 2
    THEN [ok |-> TRUE, schema_name |-> object_name[1], name |-> object_name[2],
          message |-> <<>>]
    ELSE [ok |-> FALSE, schema_name |-> "", name |-> "",
          message |-> <<"TableNamingError", object_name>>]

(***************************************************************************)
(* QueryProcessor (query/process.rs): statement -> Plan, or Rejected       *)
(* (Err(())) after sending the error.                                      *)
(***************************************************************************)
Planned(plan) == [result |-> "Ok", events |-> <<>>, plan |-> plan]

Rejected(event) == [result |-> "Err", events |-> <<event>>, plan |-> <<"None">>]

Unimplemented == [result |-> "Panic", events |-> <<>>, plan |-> <<"None">>]

\* Option<u64>::unwrap_or(255)
UnwrapOr255(len) == IF len = <<>> THEN 255 ELSE len[1]

sql_type_from_datatype(datatype) ==
    CASE datatype[1] = "SmallInt" -> [ok |-> TRUE, sql_type |-> <<"SmallInt", "i16::MIN">>]
      [] datatype[1] = "Int" -> [ok |-> TRUE, sql_type |-> <<"Integer", "i32::MIN">>]
      [] datatype[1] = "BigInt" ->
            [ok |-> TRUE, sql_type |-> <<"BigInt", "i64::MIN">>]
      [] datatype[1] = "Char" ->
            [ok |-> TRUE, sql_type |-> <<"Char", UnwrapOr255(datatype[2])>>]
      [] datatype[1] = "Varchar" ->
            [ok |-> TRUE, sql_type |-> <<"VarChar", UnwrapOr255(datatype[2])>>]
      [] datatype[1] = "Boolean" -> [ok |-> TRUE, sql_type |-> <<"Bool">>]
      [] datatype[1] = "Custom" /\ datatype[2] = "serial" ->
            [ok |-> TRUE, sql_type |-> <<"Integer", "1">>]
      [] datatype[1] = "Custom" /\ datatype[2] = "smallserial" ->
            [ok |-> TRUE, sql_type |-> <<"SmallInt", "1">>]
      [] datatype[1] = "Custom" /\ datatype[2] = "bigserial" ->
            [ok |-> TRUE, sql_type |-> <<"BigInt", "1">>]
      [] datatype[1] = "Custom" ->
            [ok |-> FALSE, sql_type |-> <<datatype[2], "type is not supported">>]
      [] OTHER ->
            [ok |-> FALSE, sql_type |-> <<datatype[1], "type is not supported">>]

\* faulty variant: a column whose type has no mapping is left out and the
\* loop goes on
RECURSIVE resolve_column_definitions_SkipsUnsupported(_, _)
resolve_column_definitions_SkipsUnsupported(columns, column_defs) ==
    IF columns = <<>> THEN [ok |-> TRUE, columns |-> column_defs, message |-> <<>>]
    ELSE LET mapped == sql_type_from_datatype(Head(columns).data_type) IN
         IF ~mapped.ok
         THEN resolve_column_definitions_SkipsUnsupported(Tail(columns), column_defs)
         ELSE resolve_column_definitions_SkipsUnsupported(Tail(columns),
                Append(column_defs, ColumnDefinition(Head(columns).name, mapped.sql_type)))

\* the first column whose type has no mapping ends the loop with its error
RECURSIVE resolve_column_definitions(_, _)
resolve_column_definitions(columns, column_defs) ==
    IF columns = <<>> THEN [ok |-> TRUE, columns |-> column_defs, message |-> <<>>]
    ELSE LET mapped == sql_type_from_datatype(Head(columns).data_type) IN
         IF ~mapped.ok THEN [ok |-> FALSE, columns |-> <<>>, message |-> mapped.sql_type]
         ELSE resolve_column_definitions(Tail(columns),
                Append(column_defs, ColumnDefinition(Head(columns).name, mapped.sql_type)))

handle_create_table(cat, name, columns) ==
    LET table_id == TableIdTryFrom(name) IN
    IF ~table_id.ok THEN Rejected(<<"SyntaxError", table_id.message>>)
    ELSE LET found == table_exists(cat, table_id.schema_name, table_id.name) IN
         CASE found = "None" -> Rejected(<<"SchemaDoesNotExist", table_id.schema_name>>)
           [] found = "SomeSome" ->
                Rejected(<<"TableAlreadyExists", <<table_id.schema_name, ".", table_id.name>>>>)
           [] OTHER ->
                LET resolved == resolve_column_definitions(columns, <<>>) IN
                IF ~resolved.ok THEN Rejected(<<"FeatureNotSupported", resolved.message>>)
                ELSE Planned(<<"CreateTable",
                        [schema_name |-> table_id.schema_name,
                         table_name |-> table_id.name,
                         columns |-> resolved.columns]>>)

\* faulty variant: a name that fails ends the loop, and the names validated
\* before it are planned
RECURSIVE DropTableNames_PlansValidated(_, _, _)
DropTableNames_PlansValidated(cat, names, table_names) ==
    IF names = <<>> THEN Planned(<<"DropTables", table_names>>)
    ELSE LET table_id == TableIdTryFrom(Head(names)) IN
         IF ~table_id.ok \/ table_exists(cat, table_id.schema_name, table_id.name)
                                # "SomeSome"
         THEN Planned(<<"DropTables", table_names>>)
         ELSE DropTableNames_PlansValidated(cat, Tail(names),
                Append(table_names, <<table_id.schema_name, table_id.name>>))

\* the loop over the names of DROP TABLE: the first name that does not
\* resolve or does not exist ends it with its error
RECURSIVE DropTableNames(_, _, _)
DropTableNames(cat, names, table_names) ==
    IF names = <<>> THEN Planned(<<"DropTables", table_names>>)
    ELSE LET table_id == TableIdTryFrom(Head(names)) IN
         IF ~table_id.ok THEN Rejected(<<"SyntaxError", table_id.message>>)
         ELSE LET found == table_exists(cat, table_id.schema_name, table_id.name) IN
              CASE found = "None" ->
                    Rejected(<<"SchemaDoesNotExist", table_id.schema_name>>)
                [] found = "SomeNone" ->
                    Rejected(<<"TableDoesNotExist",
                               <<table_id.schema_name, ".", table_id.name>>>>)
                [] OTHER ->
                    DropTableNames(cat, Tail(names),
                        Append(table_names, <<table_id.schema_name, table_id.name>>))

RECURSIVE DropSchemaNames(_, _, _, _)
DropSchemaNames(cat, names, cascade, schema_names) ==
    IF names = <<>> THEN Planned(<<"DropSchemas", schema_names>>)
    ELSE LET schema_id == SchemaIdTryFrom(Head(names)) IN
         IF ~schema_id.ok THEN Rejected(<<"SyntaxError", schema_id.message>>)
         ELSE IF ~schema_exists(cat, schema_id.name)
         THEN Rejected(<<"SchemaDoesNotExist", schema_id.name>>)
         ELSE DropSchemaNames(cat, Tail(names), cascade,
                Append(schema_names, <<schema_id.name, cascade>>))

handle_drop(cat, object_type, names, cascade) ==
    CASE object_type = "Table" -> DropTableNames(cat, names, <<>>)
      [] object_type = "Schema" -> DropSchemaNames(cat, names, cascade, <<>>)
      [] OTHER -> Unimplemented

\* faulty variant: an INSERT is planned whatever TableId::try_from returned
PlanInsert_Unresolved(stmt) ==
    Planned(<<"Insert",
        [table_id |-> <<TableIdTryFrom(stmt.table_name).schema_name,
                        TableIdTryFrom(stmt.table_name).name>>,
         column_indices |-> stmt.columns,
         input |-> stmt.source]>>)

\* the Statement::Insert arm of process
PlanInsert(stmt) ==
    LET table_id == TableIdTryFrom(stmt.table_name) IN
    IF table_id.ok
    THEN Planned(<<"Insert",
            [table_id |-> <<table_id.schema_name, table_id.name>>,
             column_indices |-> stmt.columns,
             input |-> stmt.source]>>)
    ELSE Rejected(<<"SyntaxError", table_id.message>>)

\* faulty variant: the plan is made without asking whether the schema exists
PlanCreateSchema_Unchecked(cat, schema_name) ==
    LET schema_id == SchemaIdTryFrom(schema_name) IN
    IF ~schema_id.ok THEN Rejected(<<"SyntaxError", schema_id.message>>)
    ELSE Planned(<<"CreateSchema", [schema_name |-> schema_id.name]>>)

\* the CreateSchema arm of process
PlanCreateSchema(cat, schema_name) ==
    LET schema_id == SchemaIdTryFrom(schema_name) IN
    IF ~schema_id.ok THEN Rejected(<<"SyntaxError", schema_id.message>>)
    ELSE IF schema_exists(cat, schema_id.name)
    THEN Rejected(<<"SchemaAlreadyExists", schema_id.name>>)
    ELSE Planned(<<"CreateSchema", [schema_name |-> schema_id.name]>>)

\* QueryProcessor::process
Process(cat, stmt) ==
    CASE stmt.kind = "CreateTable" -> handle_create_table(cat, stmt.name, stmt.columns)
      [] stmt.kind = "CreateSchema" -> PlanCreateSchema(cat, stmt.schema_name)
      [] stmt.kind = "Drop" ->
            handle_drop(cat, stmt.object_type, stmt.names, stmt.cascade)
      [] stmt.kind = "Insert" -> PlanInsert(stmt)
      [] OTHER -> Planned(<<"NotProcessed", stmt>>)

(***************************************************************************)
(* DDL and DML commands other than select (ddl::*, dml::insert, update,    *)
(* delete).  Each consults the catalog, performs its effect and sends one  *)
(* event; a catalog failure (fault "command") is returned as SystemError.  *)
(***************************************************************************)
TableKey(table_id) == <<table_id[1], table_id[2]>>

Missing(cat, table_id) ==
    CASE table_exists(cat, table_id[1], table_id[2]) = "None" ->
            <<<<"SchemaDoesNotExist", table_id[1]>>>>
      [] table_exists(cat, table_id[1], table_id[2]) = "SomeNone" ->
            <<<<"TableDoesNotExist", <<table_id[1], ".", table_id[2]>>>>>>
      [] OTHER -> <<>>

WithTable(cat, key, table) ==
    [cat EXCEPT !.tables = [k \in DOMAIN cat.tables \cup {key} |->
                                IF k = key THEN table ELSE cat.tables[k]]]

CreateSchemaCommand(cat, info, fault) ==
    IF fault = "command" THEN Outcome(<<>>, cat, "Err")
    ELSE IF schema_exists(cat, info.schema_name)
    THEN Outcome(<<<<"SchemaAlreadyExists", info.schema_name>>>>, cat, "Ok")
    ELSE Outcome(<<<<"SchemaCreated">>>>,
                 [cat EXCEPT !.schemas = @ \cup {info.schema_name}], "Ok")

CreateTableCommand(cat, info, fault) ==
    LET table_id == <<info.schema_name, info.table_name>> IN
    IF fault = "command" THEN Outcome(<<>>, cat, "Err")
    ELSE IF table_exists(cat, table_id[1], table_id[2]) = "None"
    THEN Outcome(<<<<"SchemaDoesNotExist", table_id[1]>>>>, cat, "Ok")
    ELSE IF table_exists(cat, table_id[1], table_id[2]) = "SomeSome"
    THEN Outcome(<<<<"TableAlreadyExists", <<table_id[1], ".", table_id[2]>>>>>>, cat, "Ok")
    ELSE Outcome(<<<<"TableCreated">>>>,
                 WithTable(cat, table_id, [columns |-> info.columns, rows |-> <<>>]),
                 "Ok")

DropSchemaCommand(cat, schema, cascade, fault) ==
    IF fault = "command" THEN Outcome(<<>>, cat, "Err")
    ELSE IF ~schema_exists(cat, schema)
    THEN Outcome(<<<<"SchemaDoesNotExist", schema>>>>, cat, "Ok")
    ELSE Outcome(<<<<"SchemaDropped">>>>,
                 [schemas |-> cat.schemas \ {schema},
                  tables |-> WithoutTables(cat.tables,
                                {k \in DOMAIN cat.tables : k[1] = schema})],
                 "Ok")

DropTableCommand(cat, table_id, fault) ==
    IF fault = "command" THEN Outcome(<<>>, cat, "Err")
    ELSE IF Missing(cat, table_id) # <<>> THEN Outcome(Missing(cat, table_id), cat, "Ok")
    ELSE Outcome(<<<<"TableDropped">>>>,
                 [cat EXCEPT !.tables = WithoutTables(@, {TableKey(table_id)})], "Ok")

\* the datum of a literal expression, <<"Number", n>> or <<"Null">>
Literal(expr) == IF expr[1] = "Number" THEN <<"Int", expr[2]>> ELSE <<"Null">>

InsertCommand(raw_sql_query, cat, table_insert, fault) ==
    LET table_id == table_insert.table_id IN
    IF fault = "command" THEN Outcome(<<>>, cat, "Err")
    ELSE IF Missing(cat, table_id) # <<>> THEN Outcome(Missing(cat, table_id), cat, "Ok")
    ELSE LET table == cat.tables[TableKey(table_id)]
             row == [i \in DOMAIN table_insert.input |-> Literal(table_insert.input[i])]
         IN Outcome(<<<<"RecordsInserted", 1>>>>,
                    WithTable(cat, TableKey(table_id),
                        [table EXCEPT !.rows = Append(@, row)]),
                    "Ok")

\* the row after the assignments whose column the table has
RECURSIVE Assigned(_, _, _)
Assigned(row, columns, assignments) ==
    IF assignments = <<>> THEN row
    ELSE LET index == IndexOfColumn(columns, Head(assignments)[1]) IN
         Assigned(IF index \in DOMAIN row
                  THEN [row EXCEPT ![index] = Literal(Head(assignments)[2])]
                  ELSE row,
                  columns, Tail(assignments))

UpdateCommand(cat, table_name, assignments, fault) ==
    LET table_id == TableIdTryFrom(table_name) IN
    IF fault = "command" THEN Outcome(<<>>, cat, "Err")
    ELSE IF ~table_id.ok THEN Outcome(<<<<"SyntaxError", table_id.message>>>>, cat, "Ok")
    ELSE IF Missing(cat, table_name) # <<>> THEN Outcome(Missing(cat, table_name), cat, "Ok")
    ELSE LET table == cat.tables[TableKey(table_name)] IN
         Outcome(<<<<"RecordsUpdated", Len(table.rows)>>>>,
                 WithTable(cat, TableKey(table_name),
                    [table EXCEPT !.rows =
                        [i \in DOMAIN @ |-> Assigned(@[i], table.columns, assignments)]]),
                 "Ok")

DeleteCommand(cat, table_name, fault) ==
    LET table_id == TableIdTryFrom(table_name) IN
    IF fault = "command" THEN Outcome(<<>>, cat, "Err")
    ELSE IF ~table_id.ok THEN Outcome(<<<<"SyntaxError", table_id.message>>>>, cat, "Ok")
    ELSE IF Missing(cat, table_name) # <<>> THEN Outcome(Missing(cat, table_name), cat, "Ok")
    ELSE LET table == cat.tables[TableKey(table_name)] IN
         Outcome(<<<<"RecordsDeleted", Len(table.rows)>>>>,
                 WithTable(cat, TableKey(table_name), [table EXCEPT !.rows = <<>>]),
                 "Ok")

(***************************************************************************)
(* QueryExecutor::process_statement (lib.rs): plan, then dispatch.  The    *)
(* result also names the DML command that was run and the table name it    *)
(* was given (`dispatched`), <<"none">> when no DML command ran.           *)
(***************************************************************************)
Dispatch(outcome, dispatched) ==
    [events |-> outcome.events, catalog |-> outcome.catalog,
     result |-> outcome.result, cmd |-> outcome.result, dispatched |-> dispatched]

NotDispatched == <<"none">>

\* for (schema, cascade) in schemas { DropSchemaCommand::execute()? }
RECURSIVE DropSchemasLoop(_, _, _, _)
DropSchemasLoop(cat, schemas, evs, fault) ==
    IF schemas = <<>> THEN Outcome(evs, cat, "Ok")
    ELSE LET done == DropSchemaCommand(cat, Head(schemas)[1], Head(schemas)[2], fault) IN
         IF done.result # "Ok" THEN Outcome(evs \o done.events, done.catalog, done.result)
         ELSE DropSchemasLoop(done.catalog, Tail(schemas), evs \o done.events, fault)

\* for table in tables { DropTableCommand::execute()? }
RECURSIVE DropTablesLoop(_, _, _, _)
DropTablesLoop(cat, tables, evs, fault) ==
    IF tables = <<>> THEN Outcome(evs, cat, "Ok")
    ELSE LET done == DropTableCommand(cat, Head(tables), fault) IN
         IF done.result # "Ok" THEN Outcome(evs \o done.events, done.catalog, done.result)
         ELSE DropTablesLoop(done.catalog, Tail(tables), evs \o done.events, fault)

\* faulty variant: StartTransaction has no arm of its own and falls to the last
DispatchNotProcessed_NoTransactionArm(raw_sql_query, cat, statement, fault) ==
    CASE statement.kind = "SetVariable" ->
            Dispatch(Outcome(<<<<"VariableSet">>>>, cat, "Ok"), NotDispatched)
      [] statement.kind = "Drop" ->
            Dispatch(Outcome(<<<<"FeatureNotSupported", raw_sql_query>>>>, cat, "Ok"),
                     NotDispatched)
      [] statement.kind = "Query" ->
            Dispatch(SelectExecute(raw_sql_query, statement, cat, fault),
                     <<"Select", IF statement.from # <<>> /\ statement.from[1][1] = "Table"
                                 THEN statement.from[1][2] ELSE <<>>>>)
      [] statement.kind = "Update" ->
            Dispatch(UpdateCommand(cat, statement.table_name, statement.assignments, fault),
                     <<"Update", statement.table_name>>)
      [] statement.kind = "Delete" ->
            Dispatch(DeleteCommand(cat, statement.table_name, fault),
                     <<"Delete", statement.table_name>>)
      [] OTHER ->
            Dispatch(Outcome(<<<<"FeatureNotSupported", raw_sql_query>>>>, cat, "Ok"),
                     NotDispatched)

\* the match on the statement a NotProcessed plan carries
DispatchNotProcessed(raw_sql_query, cat, statement, fault) ==
    CASE statement.kind = "StartTransaction" ->
            Dispatch(Outcome(<<<<"TransactionStarted">>>>, cat, "Ok"), NotDispatched)
      [] statement.kind = "SetVariable" ->
            Dispatch(Outcome(<<<<"VariableSet">>>>, cat, "Ok"), NotDispatched)
      [] statement.kind = "Drop" ->
            Dispatch(Outcome(<<<<"FeatureNotSupported", raw_sql_query>>>>, cat, "Ok"),
                     NotDispatched)
      [] statement.kind = "Query" ->
            Dispatch(SelectExecute(raw_sql_query, statement, cat, fault),
                     <<"Select", IF statement.from # <<>> /\ statement.from[1][1] = "Table"
                                 THEN statement.from[1][2] ELSE <<>>>>)
      [] statement.kind = "Update" ->
            Dispatch(UpdateCommand(cat, statement.table_name, statement.assignments, fault),
                     <<"Update", statement.table_name>>)
      [] statement.kind = "Delete" ->
            Dispatch(DeleteCommand(cat, statement.table_name, fault),
                     <<"Delete", statement.table_name>>)
      [] OTHER ->
            Dispatch(Outcome(<<<<"FeatureNotSupported", raw_sql_query>>>>, cat, "Ok"),
                     NotDispatched)

\* the match on what the processor returned
DispatchPlan(raw_sql_query, cat, planned, fault) ==
    LET plan == planned.plan
    IN  IF planned.result = "Panic"
        THEN Dispatch(Outcome(planned.events, cat, "Panic"), NotDispatched)
        ELSE IF planned.result = "Err"
        THEN Dispatch(Outcome(planned.events, cat, "Ok"), NotDispatched)
        ELSE CASE plan[1] = "CreateSchema" ->
                    Dispatch(CreateSchemaCommand(cat, plan[2], fault), NotDispatched)
               [] plan[1] = "CreateTable" ->
                    Dispatch(CreateTableCommand(cat, plan[2], fault), NotDispatched)
               [] plan[1] = "DropSchemas" ->
                    Dispatch(DropSchemasLoop(cat, plan[2], <<>>, fault), NotDispatched)
               [] plan[1] = "DropTables" ->
                    Dispatch(DropTablesLoop(cat, plan[2], <<>>, fault), NotDispatched)
               [] plan[1] = "Insert" ->
                    Dispatch(InsertCommand(raw_sql_query, cat, plan[2], fault),
                             <<"Insert", plan[2].table_id>>)
               [] OTHER ->
                    DispatchNotProcessed(raw_sql_query, cat, plan[2], fault)

ProcessStatement(raw_sql_query, cat, statement, fault) ==
    DispatchPlan(raw_sql_query, cat, Process(cat, statement), fault)

(***************************************************************************)
(* Session (session/statement.rs): prepared statements and portals.        *)
(***************************************************************************)
\* faulty variant: the description is not kept
PreparedStatement_NoDescription(stmt, param_types, description) ==
    [stmt |-> stmt, param_types |-> param_types, description |-> <<>>]

PreparedStatement(stmt, param_types, description) ==
    [stmt |-> stmt, param_types |-> param_types, description |-> description]

Portal(statement_name, stmt, result_formats) ==
    [statement_name |-> statement_name, stmt |-> stmt, result_formats |-> result_formats]

get_prepared_statement(stmts, name) == stmts[name]

set_prepared_statement(stmts, name, prepared_statement) ==
    [stmts EXCEPT ![name] = prepared_statement]

get_portal(ptls, name) == ptls[name]

\* faulty variant: storing a prepared statement closes the portals bound from
\* the statement of that name
PortalsOnParse_ClosesBound(ptls, statement_name) ==
    [n \in DOMAIN ptls |->
        IF ptls[n] # NoEntry /\ ptls[n].statement_name = statement_name
        THEN NoEntry ELSE ptls[n]]

\* the portals after set_prepared_statement: the two maps are apart
PortalsOnParse(ptls, statement_name) == ptls

set_portal(ptls, portal_name, statement_name, stmt, result_formats) ==
    [ptls EXCEPT ![portal_name] = Portal(statement_name, stmt, result_formats)]

(***************************************************************************)
(* pad_formats (lib.rs): formats of length m against a count n.            *)
(***************************************************************************)
\* faulty variant: a single format is not repeated
pad_formats_NoRepeat(formats, param_len) ==
    CASE Len(formats) = 0 ->
            [ok |-> TRUE, formats |-> [i \in 1..param_len |-> "Text"], message |-> <<>>]
      [] Len(formats) = 1 \/ Len(formats) = param_len ->
            [ok |-> TRUE, formats |-> formats, message |-> <<>>]
      [] OTHER ->
            [ok |-> FALSE, formats |-> <<>>,
             message |-> <<"expected", Len(formats),
                           "field format specifiers, but got", param_len>>]

\* faulty variant: the two counts of the message change places
pad_formats_SwappedCounts(formats, param_len) ==
    CASE Len(formats) = 0 ->
            [ok |-> TRUE, formats |-> [i \in 1..param_len |-> "Text"], message |-> <<>>]
      [] Len(formats) = 1 ->
            [ok |-> TRUE, formats |-> [i \in 1..param_len |-> formats[1]],
             message |-> <<>>]
      [] Len(formats) = param_len ->
            [ok |-> TRUE, formats |-> formats, message |-> <<>>]
      [] OTHER ->
            [ok |-> FALSE, formats |-> <<>>,
             message |-> <<"expected", param_len,
                           "field format specifiers, but got", Len(formats)>>]

pad_formats(formats, param_len) ==
    CASE Len(formats) = 0 ->
            [ok |-> TRUE, formats |-> [i \in 1..param_len |-> "Text"], message |-> <<>>]
      [] Len(formats) = 1 ->
            [ok |-> TRUE, formats |-> [i \in 1..param_len |-> formats[1]],
             message |-> <<>>]
      [] Len(formats) = param_len ->
            [ok |-> TRUE, formats |-> formats, message |-> <<>>]
      [] OTHER ->
            [ok |-> FALSE, formats |-> <<>>,
             message |-> <<"expected", Len(formats),
                           "field format specifiers, but got", param_len>>]

(***************************************************************************)
(* PostgreSqlType::decode and ParamBinder::bind.  Raw bytes are            *)
(* <<format they are written in, value>>; a raw parameter is <<"None">> or *)
(* <<"Some", bytes>>.                                                      *)
(***************************************************************************)
decode(typ, format, bytes) ==
    IF bytes[1] = format
    THEN [ok |-> TRUE, value |-> <<"Int", bytes[2]>>, message |-> <<>>]
    ELSE [ok |-> FALSE, value |-> <<"Null">>, message |-> <<"decode", typ, format>>]

\* faulty variant: the loop goes on after a parameter that does not decode
\* and reports the last such parameter
RECURSIVE DecodeParams_ReportsLast(_, _, _, _)
DecodeParams_ReportsLast(raw_params, param_types, param_formats, params) ==
    IF raw_params = <<>> \/ param_types = <<>> \/ param_formats = <<>>
    THEN [ok |-> TRUE, params |-> params, message |-> <<>>]
    ELSE LET decoded == IF Head(raw_params)[1] = "None"
                        THEN [ok |-> TRUE, value |-> <<"Null">>, message |-> <<>>]
                        ELSE decode(Head(param_types), Head(param_formats),
                                    Head(raw_params)[2])
             later == DecodeParams_ReportsLast(Tail(raw_params), Tail(param_types),
                         Tail(param_formats), Append(params, decoded.value))
         IN IF later.ok /\ ~decoded.ok
            THEN [ok |-> FALSE, params |-> <<>>, message |-> decoded.message]
            ELSE later

\* the loop over izip!(raw_params, param_types, param_formats): the values,
\* or the first parameter that does not decode
RECURSIVE DecodeParams(_, _, _, _)
DecodeParams(raw_params, param_types, param_formats, params) ==
    IF raw_params = <<>> \/ param_types = <<>> \/ param_formats = <<>>
    THEN [ok |-> TRUE, params |-> params, message |-> <<>>]
    ELSE IF Head(raw_params)[1] = "None"
    THEN DecodeParams(Tail(raw_params), Tail(param_types), Tail(param_formats),
            Append(params, <<"Null">>))
    ELSE LET decoded == decode(Head(param_types), Head(param_formats), Head(raw_params)[2])
         IN IF decoded.ok
            THEN DecodeParams(Tail(raw_params), Tail(param_types), Tail(param_formats),
                    Append(params, decoded.value))
            ELSE [ok |-> FALSE, params |-> <<>>, message |-> decoded.message]

\* the literal a value binds to
ValueLiteral(value) == IF value[1] = "Int" THEN <<"Number", value[2]>> ELSE <<"Null">>

BindExpr(expr, params) == IF IsParam(expr) THEN ValueLiteral(params[expr[2]]) ELSE expr

\* ParamBinder::bind: every placeholder $i becomes the literal of params[i];
\* a placeholder without a parameter is an error, sent by the binder
ParamBinderBind(stmt, params) ==
    LET exprs == StatementExprs(stmt) IN
    IF \E i \in DOMAIN exprs : IsParam(exprs[i]) /\ exprs[i][2] \notin DOMAIN params
    THEN [ok |-> FALSE, stmt |-> stmt, events |-> <<<<"BinderError", Len(params)>>>>]
    ELSE [ok |-> TRUE, events |-> <<>>,
          stmt |-> CASE stmt.kind = "Insert" ->
                        [stmt EXCEPT !.source =
                            [i \in DOMAIN @ |-> BindExpr(@[i], params)]]
                     [] stmt.kind = "Update" ->
                        [stmt EXCEPT !.assignments =
                            [i \in DOMAIN @ |-> <<@[i][1], BindExpr(@[i][2], params)>>]]
                     [] OTHER -> stmt]

(***************************************************************************)
(* QueryExecutor's public operations (lib.rs), each as the result of one   *)
(* call: the events sent, the state left and how the call returned.        *)
(***************************************************************************)
QueryComplete == <<"QueryComplete">>

SyntaxError(raw_sql_query) == <<"SyntaxError", <<raw_sql_query, "can't be parsed">>>>

Last(seq) == seq[Len(seq)]

\* faulty variant: the result of process_statement is dropped: QueryComplete is sent
\* and Ok returned whatever the command returned
Framed_IgnoringError(done) ==
    [done EXCEPT !.events = Append(@, QueryComplete), !.result = "Ok"]

\* the end of execute: `?` returns what process_statement did not complete,
\* QueryComplete follows what it did
Framed(done) ==
    IF done.result # "Ok" THEN done
    ELSE [done EXCEPT !.events = Append(@, QueryComplete)]

\* QueryExecutor::execute
ExecuteCall(cat, raw_sql_query, fault) ==
    LET parsed_sql == parse_sql("PostgreSqlDialect", raw_sql_query) IN
    IF ~parsed_sql.ok THEN
        [events |-> <<SyntaxError(raw_sql_query)>>, catalog |-> cat, result |-> "Ok",
         cmd |-> "none", dispatched |-> NotDispatched]
    ELSE IF parsed_sql.statements = <<>> THEN
        \* statements.pop().unwrap() on an empty list
        [events |-> <<>>, catalog |-> cat, result |-> "Panic",
         cmd |-> "none", dispatched |-> NotDispatched]
    ELSE Framed(ProcessStatement(raw_sql_query, cat,
                    Last(parsed_sql.statements), fault))

\* faulty variant: a name that is already taken keeps its first statement
StoreParsed_KeepsFirst(stmts, statement_name, statement, param_types, described) ==
    IF described.result # "Ok" THEN
        [events |-> described.events, statements |-> stmts,
         result |-> described.result, description |-> <<>>]
    ELSE
        [events |-> Append(described.events, <<"ParseComplete">>),
         statements |->
            IF get_prepared_statement(stmts, statement_name) # NoEntry THEN stmts
            ELSE set_prepared_statement(stmts, statement_name,
                    PreparedStatement(statement, param_types, described.description)),
         result |-> "Ok", description |-> described.description]

\* faulty variant: the statement is stored before it is described
StoreParsed_StoresFirst(stmts, statement_name, statement, param_types, described) ==
    IF described.result # "Ok" THEN
        [events |-> described.events,
         statements |->
            set_prepared_statement(stmts, statement_name,
                PreparedStatement(statement, param_types, <<>>)),
         result |-> described.result, description |-> <<>>]
    ELSE
        [events |-> Append(described.events, <<"ParseComplete">>),
         statements |->
            set_prepared_statement(stmts, statement_name,
                PreparedStatement(statement, param_types, described.description)),
         result |-> "Ok", description |-> described.description]

\* the end of parse_prepared_statement: `.describe()?` hands an error on to
\* the caller, otherwise the statement is stored and ParseComplete sent
StoreParsed(stmts, statement_name, statement, param_types, described) ==
    IF described.result # "Ok" THEN
        [events |-> described.events, statements |-> stmts,
         result |-> described.result, description |-> <<>>]
    ELSE
        [events |-> Append(described.events, <<"ParseComplete">>),
         statements |->
            set_prepared_statement(stmts, statement_name,
                PreparedStatement(statement, param_types, described.description)),
         result |-> "Ok", description |-> described.description]

\* QueryExecutor::parse_prepared_statement
ParseCall(cat, stmts, statement_name, raw_sql_query, param_types, fault) ==
    LET parsed_sql == parse_sql("PreparedStatementDialect", raw_sql_query) IN
    IF ~parsed_sql.ok THEN
        [events |-> <<SyntaxError(raw_sql_query)>>, statements |-> stmts,
         result |-> "Ok", description |-> <<>>]
    ELSE IF parsed_sql.statements = <<>> THEN
        [events |-> <<>>, statements |-> stmts, result |-> "Panic",
         description |-> <<>>]
    ELSE StoreParsed(stmts, statement_name, Last(parsed_sql.statements), param_types,
            IF Last(parsed_sql.statements).kind = "Query"
            THEN describe(raw_sql_query, Last(parsed_sql.statements), cat, fault)
            ELSE [result |-> "Ok", events |-> <<>>, description |-> <<>>])

\* faulty variant: a name without a statement is described as a statement
\* without parameters and columns
DescribeCall_DescribesMissing(stmts, name) ==
    LET stmt == get_prepared_statement(stmts, name) IN
    IF stmt # NoEntry
    THEN [events |-> <<<<"PreparedStatementDescribed", stmt.param_types,
                         stmt.description>>>>,
          result |-> "Ok"]
    ELSE [events |-> <<<<"PreparedStatementDescribed", <<>>, <<>>>>>>, result |-> "Ok"]

\* QueryExecutor::describe_prepared_statement
DescribeCall(stmts, name) ==
    LET stmt == get_prepared_statement(stmts, name) IN
    IF stmt # NoEntry
    THEN [events |-> <<<<"PreparedStatementDescribed", stmt.param_types,
                         stmt.description>>>>,
          result |-> "Ok"]
    ELSE [events |-> <<<<"PreparedStatementDoesNotExist", name>>>>, result |-> "Ok"]

\* faulty variant: the error is sent but the call goes on to BindComplete
BindFailed_NoReturn(ptls, event) ==
    [events |-> <<event, <<"BindComplete">>>>, portals |-> ptls, result |-> "Ok"]

\* send(Err(event)); return Ok(())
BindFailed(ptls, event) == [events |-> <<event>>, portals |-> ptls, result |-> "Ok"]

\* faulty variant: the binder is run on the statement of the session
BindClone_InPlace(prepared_statement, params) ==
    LET bound == ParamBinderBind(prepared_statement.stmt, params) IN
    [ok |-> bound.ok, events |-> bound.events, stmt |-> bound.stmt,
     prepared |-> [prepared_statement EXCEPT !.stmt = bound.stmt]]

\* let mut new_stmt = prepared_statement.stmt().clone(); bind(&mut new_stmt):
\* the binder works on the clone, the prepared statement stays as it is
BindClone(prepared_statement, params) ==
    LET bound == ParamBinderBind(prepared_statement.stmt, params) IN
    [ok |-> bound.ok, events |-> bound.events, stmt |-> bound.stmt,
     prepared |-> prepared_statement]

\* the prepared statements a bind leaves
Kept(stmts, done) == done @@ [statements |-> stmts]

\* faulty variant: the portal's name is recorded as the name of its statement
StorePortal_PortalNameTwice(ptls, portal_name, statement_name, new_stmt, result_formats) ==
    [events |-> <<<<"BindComplete">>>>,
     portals |-> set_portal(ptls, portal_name, portal_name, new_stmt, result_formats),
     result |-> "Ok"]

\* the end of a bind that passed every check: the portal is stored and
\* BindComplete sent
StorePortal(ptls, portal_name, statement_name, new_stmt, result_formats) ==
    [events |-> <<<<"BindComplete">>>>,
     portals |-> set_portal(ptls, portal_name, statement_name, new_stmt,
                            result_formats),
     result |-> "Ok"]

\* faulty variant: the portal is stored before the result formats are checked
FinishBind_StoresFirst(ptls, portal_name, statement_name, new_stmt, result_formats, description_len) ==
    LET padded_results == pad_formats(result_formats, description_len) IN
    IF ~padded_results.ok THEN
        BindFailed(set_portal(ptls, portal_name, statement_name, new_stmt, result_formats),
                   <<"ProtocolViolation", padded_results.message>>)
    ELSE StorePortal(ptls, portal_name, statement_name, new_stmt, padded_results.formats)

\* faulty variant: the result formats are checked, and stored as they came
FinishBind_Unpadded(ptls, portal_name, statement_name, new_stmt, result_formats, description_len) ==
    LET padded_results == pad_formats(result_formats, description_len) IN
    IF ~padded_results.ok THEN
        BindFailed(ptls, <<"ProtocolViolation", padded_results.message>>)
    ELSE StorePortal(ptls, portal_name, statement_name, new_stmt, result_formats)

\* the last steps of a bind: the result formats are padded against the
\* number of described columns, then the portal is stored
FinishBind(ptls, portal_name, statement_name, new_stmt, result_formats, description_len) ==
    LET padded_results == pad_formats(result_formats, description_len) IN
    IF ~padded_results.ok THEN
        BindFailed(ptls, <<"ProtocolViolation", padded_results.message>>)
    ELSE StorePortal(ptls, portal_name, statement_name, new_stmt, padded_results.formats)

\* QueryExecutor::bind_prepared_statement_to_portal
BindCall(stmts, ptls, portal_name, statement_name, param_formats, raw_params, result_formats) ==
    LET prepared_statement == get_prepared_statement(stmts, statement_name) IN
    IF prepared_statement = NoEntry THEN
        Kept(stmts, BindFailed(ptls, <<"PreparedStatementDoesNotExist", statement_name>>))
    ELSE LET param_types == prepared_statement.param_types IN
    IF Len(param_types) # Len(raw_params) THEN
        Kept(stmts, BindFailed(ptls, <<"ProtocolViolation",
            <<"Bind message supplies", Len(raw_params),
              "parameters, but prepared statement", statement_name,
              "requires", Len(param_types)>>>>))
    ELSE LET padded_params == pad_formats(param_formats, Len(raw_params)) IN
    IF ~padded_params.ok THEN
        Kept(stmts, BindFailed(ptls, <<"ProtocolViolation", padded_params.message>>))
    ELSE LET decoded == DecodeParams(raw_params, param_types,
                                     padded_params.formats, <<>>) IN
    IF ~decoded.ok THEN
        Kept(stmts, BindFailed(ptls, <<"InvalidParameterValue", decoded.message>>))
    ELSE LET bound == BindClone(prepared_statement, decoded.params)
             left == set_prepared_statement(stmts, statement_name, bound.prepared) IN
    IF ~bound.ok THEN
        Kept(left, [events |-> bound.events, portals |-> ptls, result |-> "Ok"])
    ELSE Kept(left, FinishBind(ptls, portal_name, statement_name, bound.stmt,
                               result_formats, Len(prepared_statement.description)))

\* faulty variant: execute_portal closes the request as execute does
ExecutePortalCall_Framed(cat, ptls, portal_name, max_rows, fault) ==
    IF get_portal(ptls, portal_name) = NoEntry THEN
        [events |-> <<<<"PortalDoesNotExist", portal_name>>>>, catalog |-> cat,
         result |-> "Ok", cmd |-> "none", dispatched |-> NotDispatched,
         portals |-> ptls]
    ELSE Framed(ProcessStatement(FormatStatement(get_portal(ptls, portal_name).stmt),
                    cat, get_portal(ptls, portal_name).stmt, fault))
         @@ [portals |-> ptls]

\* faulty variant: the portal is taken out of the session when it is executed
ExecutePortalCall_Consuming(cat, ptls, portal_name, max_rows, fault) ==
    IF get_portal(ptls, portal_name) = NoEntry THEN
        [events |-> <<<<"PortalDoesNotExist", portal_name>>>>, catalog |-> cat,
         result |-> "Ok", cmd |-> "none", dispatched |-> NotDispatched,
         portals |-> ptls]
    ELSE ProcessStatement(FormatStatement(get_portal(ptls, portal_name).stmt),
                          cat, get_portal(ptls, portal_name).stmt, fault)
         @@ [portals |-> [ptls EXCEPT ![portal_name] = NoEntry]]

\* QueryExecutor::execute_portal; max_rows is not read, the portal is read
\* through get_portal and the session is left as it was
ExecutePortalCall(cat, ptls, portal_name, max_rows, fault) ==
    LET portal == get_portal(ptls, portal_name) IN
    IF portal = NoEntry THEN
        [events |-> <<<<"PortalDoesNotExist", portal_name>>>>, catalog |-> cat,
         result |-> "Ok", cmd |-> "none", dispatched |-> NotDispatched,
         portals |-> ptls]
    ELSE ProcessStatement(FormatStatement(portal.stmt), cat, portal.stmt, fault)
         @@ [portals |-> ptls]

(***************************************************************************)
(* The requests of the model: statements as the parser's AST, the texts    *)
(* that hold them, and the arguments of the extended-protocol calls.       *)
(***************************************************************************)
TableST == <<"s", "t">>

ColumnsAB ==
    <<[name |-> "a", data_type |-> <<"SmallInt">>],
      [name |-> "b", data_type |-> <<"Varchar", <<>>>>]>>

CreateSchemaS == [kind |-> "CreateSchema", schema_name |-> <<"s">>]

CreateTableST == [kind |-> "CreateTable", name |-> TableST, columns |-> ColumnsAB]

DropOf(object_type, names) ==
    [kind |-> "Drop", object_type |-> object_type, names |-> names, cascade |-> FALSE]

InsertInto(table_name, source) ==
    [kind |-> "Insert", table_name |-> table_name, columns |-> <<>>, source |-> source]

SelectFrom(projection, from) ==
    [kind |-> "Query", body |-> "Select", projection |-> projection, from |-> from]

Identifier(name) == <<"Identifier", name>>

UpdateST ==
    [kind |-> "Update", table_name |-> TableST,
     assignments |-> <<<<"a", <<"Number", 1>>>>>>]

DeleteST == [kind |-> "Delete", table_name |-> TableST]

\* statements a simple query and a Parse may both carry
PlainStatements ==
    { CreateSchemaS,
      InsertInto(TableST, <<<<"Number", 1>>, <<"Number", 2>>>>),
      SelectFrom(<<Identifier("b"), Identifier("a")>>, <<<<"Table", TableST>>>>),
      SelectFrom(<<Identifier("c")>>, <<<<"Table", TableST>>>>),
      SelectFrom(<<<<"Wildcard">>>>, <<<<"Table", <<"t">>>>>>) }

\* statements only simple queries carry in this model
SimpleStatements ==
    { CreateTableST,
      DropOf("Table", <<TableST>>),
      DropOf("Schema", <<<<"s">>>>),
      InsertInto(<<"t">>, <<<<"Number", 1>>, <<"Number", 2>>>>),
      SelectFrom(<<<<"Wildcard">>>>, <<<<"Table", TableST>>>>),
      UpdateST,
      DeleteST,
      [kind |-> "StartTransaction"],
      [kind |-> "SetVariable"],
      [kind |-> "Commit"] }

\* a statement with a parameter: only the prepared-statement dialect reads it
ParamStatements == { InsertInto(TableST, <<<<"Param", 1>>, <<"Number", 2>>>>) }

Garbage == <<"garbage", 1>>

TextOf(stmts) == <<"sql", stmts>>

SimpleTexts ==
    {Garbage, TextOf(<<>>), TextOf(<<CreateSchemaS, CreateTableST>>)}
    \cup {TextOf(<<stmt>>) : stmt \in PlainStatements \cup SimpleStatements}

PreparedTexts ==
    {Garbage} \cup {TextOf(<<stmt>>) : stmt \in PlainStatements \cup ParamStatements}

Faults == {"none", "full_scan", "table_columns", "record", "command"}

StatementNames == {"s1"}

PortalNames == {"p1"}

ParamTypeLists == {<<>>, <<"Integer">>}

ParamFormatLists == {<<>>, <<"Binary">>, <<"Text", "Binary">>}

RawParamLists == {<<>>, <<<<"None">>>>, <<<<"Some", <<"Binary", 1>>>>>>}

ResultFormatLists == {<<>>, <<"Binary">>, <<"Text", "Binary", "Text">>}

MaxRowsChoices == {0, 1}

\* no table holds more than MaxRows rows
WithinBounds(cat) == \A k \in DOMAIN cat.tables : Len(cat.tables[k].rows) <= MaxRows

(***************************************************************************)
(* The state machine.                                                      *)
(***************************************************************************)
Call(op, args, fault, done) ==
    [op |-> op, args |-> args, fault |-> fault, result |-> done.result,
     cmd |-> done.cmd, dispatched |-> done.dispatched]

NoCommand(done) ==
    [result |-> done.result, cmd |-> "none", dispatched |-> NotDispatched]

\* a thread that panicked makes no further call
Alive == lastCall.result # "Panic"

Init ==
    /\ catalog = EmptyCatalog
    /\ statements = [n \in StatementNames |-> NoEntry]
    /\ portals = [n \in PortalNames |-> NoEntry]
    /\ events = <<>>
    /\ lastCall = Call("none", <<>>, "none", NoCommand([result |-> "Ok"]))
    /\ parsed = [n \in StatementNames |-> NoEntry]
    /\ pad = NoEntry

Execute(raw_sql_query, fault) ==
    \E done \in {ExecuteCall(catalog, raw_sql_query, fault)} :
    /\ Alive
    /\ fault = "none" \/ done # ExecuteCall(catalog, raw_sql_query, "none")
    /\ IF done.catalog = catalog THEN TRUE ELSE WithinBounds(done.catalog)
    /\ catalog' = done.catalog
    /\ events' = done.events
    /\ lastCall' = Call("execute", <<raw_sql_query>>, fault, done)
    /\ UNCHANGED <<statements, portals, parsed, pad>>

ParsePreparedStatement(statement_name, raw_sql_query, param_types, fault) ==
    \E done \in {ParseCall(catalog, statements, statement_name, raw_sql_query,
                           param_types, fault)} :
    /\ Alive
    /\ fault = "none" \/ done # ParseCall(catalog, statements, statement_name,
                                         raw_sql_query, param_types, "none")
    /\ statements' = done.statements
    /\ events' = done.events
    /\ lastCall' = Call("parse", <<statement_name, raw_sql_query, param_types>>,
                        fault, NoCommand(done))
    /\ parsed' = IF <<"ParseComplete">> \in Range(done.events)
                 THEN [parsed EXCEPT ![statement_name] =
                        [param_types |-> param_types,
                         description |-> done.description]]
                 ELSE parsed
    /\ portals' = IF <<"ParseComplete">> \in Range(done.events)
                  THEN PortalsOnParse(portals, statement_name)
                  ELSE portals
    /\ UNCHANGED <<catalog, pad>>

DescribePreparedStatement(name) ==
    \E done \in {DescribeCall(statements, name)} :
    /\ Alive
    /\ events' = done.events
    /\ lastCall' = Call("describe", <<name>>, "none", NoCommand(done))
    /\ UNCHANGED <<catalog, statements, portals, parsed, pad>>

BindPreparedStatementToPortal(portal_name, statement_name, param_formats, raw_params, result_formats) ==
    \E done \in {BindCall(statements, portals, portal_name, statement_name,
                          param_formats, raw_params, result_formats)} :
    /\ Alive
    /\ statements' = done.statements
    /\ portals' = done.portals
    /\ events' = done.events
    /\ lastCall' = Call("bind", <<portal_name, statement_name, param_formats,
                                  raw_params, result_formats>>,
                        "none", NoCommand(done))
    /\ UNCHANGED <<catalog, parsed, pad>>

ExecutePortal(portal_name, max_rows, fault) ==
    \E done \in {ExecutePortalCall(catalog, portals, portal_name, max_rows, fault)} :
    /\ Alive
    /\ fault = "none" \/ done # ExecutePortalCall(catalog, portals, portal_name,
                                                 max_rows, "none")
    /\ IF done.catalog = catalog THEN TRUE ELSE WithinBounds(done.catalog)
    /\ catalog' = done.catalog
    /\ events' = done.events
    /\ portals' = done.portals
    /\ lastCall' = Call("execute_portal", <<portal_name>>, fault, done)
    /\ UNCHANGED <<statements, parsed, pad>>

Next ==
    \/ \E text \in SimpleTexts, fault \in Faults : Execute(text, fault)
    \/ \E name \in StatementNames, text \in PreparedTexts,
          param_types \in ParamTypeLists, fault \in Faults :
            ParsePreparedStatement(name, text, param_types, fault)
    \/ \E name \in StatementNames : DescribePreparedStatement(name)
    \/ \E portal_name \in PortalNames, name \in StatementNames,
          param_formats \in ParamFormatLists, raw_params \in RawParamLists,
          result_formats \in ResultFormatLists :
            BindPreparedStatementToPortal(portal_name, name, param_formats,
                                          raw_params, result_formats)
    \/ \E portal_name \in PortalNames, max_rows \in MaxRowsChoices, fault \in Faults :
            ExecutePortal(portal_name, max_rows, fault)

Spec == Init /\ [][Next]_vars

(***************************************************************************)
(* pad_formats alone: every list of at most MaxFormats formats against     *)
(* every count up to MaxFormats.                                           *)
(***************************************************************************)
Formats == {"Text", "Binary"}

FormatLists == UNION {[1..m -> Formats] : m \in 0..MaxFormats}

InitPad ==
    /\ catalog = EmptyCatalog
    /\ statements = [n \in StatementNames |-> NoEntry]
    /\ portals = [n \in PortalNames |-> NoEntry]
    /\ events = <<>>
    /\ lastCall = Call("none", <<>>, "none", NoCommand([result |-> "Ok"]))
    /\ parsed = [n \in StatementNames |-> NoEntry]
    /\ pad \in {[formats |-> formats, param_len |-> n, called |-> FALSE,
                 result |-> pad_formats(<<>>, 0)] :
                    formats \in FormatLists, n \in 0..MaxFormats}

PadFormats ==
    /\ ~pad.called
    /\ pad' = [pad EXCEPT !.called = TRUE,
                          !.result = pad_formats(pad.formats, pad.param_len)]
    /\ UNCHANGED <<catalog, statements, portals, events, lastCall, parsed>>

NextPad == PadFormats

SpecPad == InitPad /\ [][NextPad]_vars

(***************************************************************************)
(* The session alone: Parse and Bind under two statement names and two     *)
(* portal names.                                                           *)
(***************************************************************************)
SessionStatementNames == {"s1", "s2"}

SessionPortalNames == {"p1", "p2"}

SessionTexts == {TextOf(<<stmt>>) : stmt \in {CreateSchemaS} \cup ParamStatements}

InitSession ==
    /\ catalog = EmptyCatalog
    /\ statements = [n \in SessionStatementNames |-> NoEntry]
    /\ portals = [n \in SessionPortalNames |-> NoEntry]
    /\ events = <<>>
    /\ lastCall = Call("none", <<>>, "none", NoCommand([result |-> "Ok"]))
    /\ parsed = [n \in SessionStatementNames |-> NoEntry]
    /\ pad = NoEntry

NextSession ==
    \/ \E name \in SessionStatementNames, text \in SessionTexts :
            ParsePreparedStatement(name, text, <<"Integer">>, "none")
    \/ \E portal_name \in SessionPortalNames, name \in SessionStatementNames :
            BindPreparedStatementToPortal(portal_name, name, <<"Binary">>,
                <<<<"Some", <<"Binary", 1>>>>>>, <<>>)

SpecSession == InitSession /\ [][NextSession]_vars

(***************************************************************************)
(* DROP alone: simple queries DROP TABLE and DROP SCHEMA with lists of     *)
(* names over a storage that holds some of them.                           *)
(***************************************************************************)
SchemaOnly == [schemas |-> {"s"}, tables |-> <<>>]

TableSU == <<"s", "u">>

EmptyTable ==
    [columns |-> resolve_column_definitions(ColumnsAB, <<>>).columns, rows |-> <<>>]

DropCatalogs ==
    { EmptyCatalog,
      SchemaOnly,
      WithTable(SchemaOnly, TableST, EmptyTable),
      WithTable(WithTable(SchemaOnly, TableST, EmptyTable), TableSU, EmptyTable),
      [schemas |-> {"s", "r"}, tables |-> <<>>],
      WithTable([schemas |-> {"s", "r"}, tables |-> <<>>], TableST, EmptyTable) }

DropNameLists ==
    { <<TableST>>, <<TableST, TableSU>>, <<TableSU, TableST>>,
      <<TableST, <<"x", "t">>>>, <<TableST, <<"t">>>>, <<TableST, TableST>>,
      <<<<"s">>>>, <<<<"s">>, <<"r">>>>, <<<<"r">>, <<"s">>>>, <<<<"s">>, <<"s">>>> }

DropTexts ==
    {TextOf(<<DropOf(object_type, names)>>) :
        object_type \in {"Table", "Schema"}, names \in DropNameLists}

InitDrop ==
    /\ catalog \in DropCatalogs
    /\ statements = [n \in StatementNames |-> NoEntry]
    /\ portals = [n \in PortalNames |-> NoEntry]
    /\ events = <<>>
    /\ lastCall = Call("none", <<>>, "none", NoCommand([result |-> "Ok"]))
    /\ parsed = [n \in StatementNames |-> NoEntry]
    /\ pad = NoEntry

NextDrop == \E text \in DropTexts : Execute(text, "none")

SpecDrop == InitDrop /\ [][NextDrop]_vars

(***************************************************************************)
(* Definitions and statements outside the data path: simple queries and    *)
(* Parse calls over CREATE SCHEMA, CREATE TABLE, the statements the        *)
(* processor passes through and texts of several statements, from each of  *)
(* a few catalogs, with and without a failing catalog command.             *)
(***************************************************************************)
ColumnsMixed ==
    <<[name |-> "a", data_type |-> <<"SmallInt">>],
      [name |-> "x", data_type |-> <<"Custom", "money">>],
      [name |-> "y", data_type |-> <<"Float">>]>>

ColumnsBA ==
    <<[name |-> "b", data_type |-> <<"Char", <<>>>>],
      [name |-> "a", data_type |-> <<"Custom", "serial">>]>>

CreateTableOf(name, columns) == [kind |-> "CreateTable", name |-> name, columns |-> columns]

DefineStatements ==
    { CreateSchemaS,
      [kind |-> "CreateSchema", schema_name |-> <<"r">>],
      CreateTableST,
      CreateTableOf(TableST, ColumnsMixed),
      CreateTableOf(TableSU, ColumnsBA),
      CreateTableOf(<<"r", "t">>, ColumnsMixed),
      [kind |-> "StartTransaction"],
      [kind |-> "SetVariable"],
      [kind |-> "Commit"],
      [kind |-> "Rollback"] }

SeveralStatements ==
    { <<CreateSchemaS, CreateTableST>>,
      <<CreateTableST, CreateSchemaS>>,
      <<DropOf("Schema", <<<<"s">>>>), [kind |-> "StartTransaction"]>>,
      <<CreateTableST, CreateSchemaS, [kind |-> "SetVariable"]>>,
      <<CreateSchemaS, SelectFrom(<<<<"Wildcard">>>>, <<<<"Table", <<"t">>>>>>)>> }

DefineTexts ==
    {TextOf(<<stmt>>) : stmt \in DefineStatements} \cup {TextOf(stmts) : stmts \in SeveralStatements}

DefineCatalogs ==
    { EmptyCatalog, SchemaOnly, WithTable(SchemaOnly, TableST, EmptyTable) }

DefineFaults == {"none", "command"}

InitDefine ==
    /\ catalog \in DefineCatalogs
    /\ statements = [n \in StatementNames |-> NoEntry]
    /\ portals = [n \in PortalNames |-> NoEntry]
    /\ events = <<>>
    /\ lastCall = Call("none", <<>>, "none", NoCommand([result |-> "Ok"]))
    /\ parsed = [n \in StatementNames |-> NoEntry]
    /\ pad = NoEntry

NextDefine ==
    \/ \E text \in DefineTexts, fault \in DefineFaults : Execute(text, fault)
    \/ \E stmts \in SeveralStatements :
          ParsePreparedStatement("s1", TextOf(stmts), <<>>, "none")

SpecDefine == InitDefine /\ [][NextDefine]_vars

(***************************************************************************)
(* Binds with every combination of parameter formats, raw parameters and   *)
(* result formats, of statements parsed with none, one or two parameter    *)
(* types.                                                                  *)
(***************************************************************************)
BindTexts ==
    {TextOf(<<stmt>>) :
        stmt \in ParamStatements
                 \cup {SelectFrom(<<Identifier("b"), Identifier("a")>>,
                                  <<<<"Table", TableST>>>>)}}

BindTypeLists == ParamTypeLists \cup {<<"Integer", "SmallInt">>}

BindRawLists ==
    RawParamLists
    \cup { <<<<"Some", <<"Text", 1>>>>>>,
           <<<<"Some", <<"Binary", 1>>>>, <<"Some", <<"Text", 2>>>>>>,
           <<<<"None">>, <<"Some", <<"Text", 2>>>>>> }

NextBind ==
    \/ \E text \in BindTexts, param_types \in BindTypeLists :
            ParsePreparedStatement("s1", text, param_types, "none")
    \/ \E param_formats \in ParamFormatLists, raw_params \in BindRawLists,
           result_formats \in ResultFormatLists :
            BindPreparedStatementToPortal("p1", "s1", param_formats, raw_params,
                                          result_formats)

SpecBind == InitDefine /\ [][NextBind]_vars

(***************************************************************************)
(* One statement name and one portal name through parse, describe, bind    *)
(* and execute_portal, over texts that parse, fail to parse or fail to be  *)
(* described.                                                              *)
(***************************************************************************)
NextSnapshot ==
    \/ \E text \in PreparedTexts : ParsePreparedStatement("s1", text, <<>>, "none")
    \/ DescribePreparedStatement("s1")
    \/ BindPreparedStatementToPortal("p1", "s1", <<>>, <<>>, <<>>)
    \/ ExecutePortal("p1", 0, "none")

SpecSnapshot == InitDefine /\ [][NextSnapshot]_vars

(***************************************************************************)
(* SELECT alone: simple queries over a storage that already holds schema   *)
(* s, with or without table s.t (columns a, b) and up to MaxScan records.  *)
(***************************************************************************)
SampleRows ==
    { <<<<"Int", 1>>, <<"Int", 2>>>>,
      <<<<"Int", 3>>, <<"Null">>>>,
      <<<<"Null">>, <<"Int", 0>>>> }

RowLists == UNION {[1..k -> SampleRows] : k \in 0..MaxScan}

SelectCatalogs ==
    {EmptyCatalog, SchemaOnly}
    \cup {WithTable(SchemaOnly, TableST,
                [columns |-> resolve_column_definitions(ColumnsAB, <<>>).columns,
                 rows |-> rows]) : rows \in RowLists}

Projections ==
    { <<Identifier("a")>>,
      <<Identifier("b"), Identifier("a")>>,
      <<Identifier("a"), Identifier("a")>>,
      <<<<"Wildcard">>>>,
      <<Identifier("b"), <<"Wildcard">>>>,
      <<Identifier("c")>>,
      <<Identifier("d"), Identifier("a"), Identifier("c")>>,
      <<<<"Wildcard">>, Identifier("c")>> }

SelectTexts ==
    {TextOf(<<SelectFrom(projection, <<<<"Table", TableST>>>>)>>) :
        projection \in Projections}

SelectFaults == {"none", "full_scan", "table_columns", "record"}

InitSelect ==
    /\ catalog \in SelectCatalogs
    /\ statements = [n \in StatementNames |-> NoEntry]
    /\ portals = [n \in PortalNames |-> NoEntry]
    /\ events = <<>>
    /\ lastCall = Call("none", <<>>, "none", NoCommand([result |-> "Ok"]))
    /\ parsed = [n \in StatementNames |-> NoEntry]
    /\ pad = NoEntry

NextSelect == \E text \in SelectTexts, fault \in SelectFaults : Execute(text, fault)

SpecSelect == InitSelect /\ [][NextSelect]_vars

(***************************************************************************)
(* Properties.                                                             *)
(***************************************************************************)
CountOf(event, evs) == Cardinality({i \in DOMAIN evs : evs[i] = event})

WithoutQueryComplete(evs) == SelectSeq(evs, LAMBDA event : event # QueryComplete)

\* the statements the text of the last execute parsed to
ExecutedStatements == parse_sql("PostgreSqlDialect", lastCall.args[1])

\* C1: every execute whose text parses to a statement and whose command
\* returns no system error sends exactly one QueryComplete, as its last event
C1_ExecuteEndsWithQueryComplete ==
    (/\ lastCall.op = "execute"
     /\ ExecutedStatements.ok
     /\ ExecutedStatements.statements # <<>>
     /\ lastCall.cmd # "Err")
    => /\ CountOf(QueryComplete, events) = 1
       /\ Last(events) = QueryComplete

\* C2: an execute of text the parser rejects sends one SyntaxError and then
\* QueryComplete
C2_SyntaxErrorThenQueryComplete ==
    (lastCall.op = "execute" /\ ~ExecutedStatements.ok)
    => events = <<SyntaxError(lastCall.args[1]), QueryComplete>>

\* the events execute sends for the bound statement of portal p, written
\* back to text, in catalog cat under fault f
DirectEvents(cat, p, f) ==
    ExecuteCall(cat, FormatStatement(portals[p].stmt), f).events

C4_OnlyFaultsReturnErr ==
    lastCall.fault = "none" => lastCall.result # "Err"

\* C5: when the command execute dispatched fails with a system error,
\* execute returns the error and sends no QueryComplete
C5_SystemErrorEndsExecute ==
    (lastCall.op = "execute" /\ lastCall.cmd = "Err")
    => /\ lastCall.result = "Err"
       /\ QueryComplete \notin Range(events)

\* the scan of a SELECT failed inside execute
C5_Witness ==
    /\ lastCall.op = "execute"
    /\ lastCall.cmd = "Err"
    /\ lastCall.fault = "full_scan"
    /\ lastCall.dispatched[1] = "Select"

\* C6: describe of a name sends the param_types given to the last successful
\* Parse of that name and the description computed by that Parse
C6_DescribeReturnsWhatParseStored ==
    (lastCall.op = "describe" /\ parsed[lastCall.args[1]] # NoEntry)
    => events = <<<<"PreparedStatementDescribed",
                    parsed[lastCall.args[1]].param_types,
                    parsed[lastCall.args[1]].description>>>>

\* a statement with a row description and declared parameter types was
\* described after its table was dropped
C6_Witness ==
    /\ lastCall.op = "describe"
    /\ parsed[lastCall.args[1]] # NoEntry
    /\ parsed[lastCall.args[1]].description # <<>>
    /\ parsed[lastCall.args[1]].param_types # <<>>
    /\ DOMAIN catalog.tables = {}

\* C7: the statement a stored portal names is a stored prepared statement
C7_PortalStatementExists ==
    \A p \in PortalNames :
        portals[p] # NoEntry
        => /\ portals[p].statement_name \in DOMAIN statements
           /\ statements[portals[p].statement_name] # NoEntry

\* a portal is stored
C7_Witness ==
    /\ lastCall.op = "bind"
    /\ \E p \in PortalNames : portals[p] # NoEntry

\* C8: a stored prepared statement declares as many parameter types as its
\* AST has placeholders
C8_ParamTypesMatchPlaceholders ==
    \A n \in StatementNames :
        statements[n] # NoEntry
        => Len(statements[n].param_types) = Placeholders(statements[n].stmt)

\* the statement the last execute or execute_portal handed to
\* process_statement
DispatchedStatement ==
    IF lastCall.op = "execute" THEN Last(ExecutedStatements.statements)
    ELSE portals[lastCall.args[1]].stmt

C10_PadFormatsPads ==
    (pad.called /\ Len(pad.formats) \in {0, 1, pad.param_len})
    => /\ pad.result.ok
       /\ Len(pad.result.formats) = pad.param_len
       /\ Len(pad.formats) = 0
            => \A i \in 1..pad.param_len : pad.result.formats[i] = "Text"
       /\ Len(pad.formats) = 1
            => \A i \in 1..pad.param_len : pad.result.formats[i] = pad.formats[1]
       /\ Len(pad.formats) = pad.param_len => pad.result.formats = pad.formats

\* one Binary format was padded to three
C10_Witness ==
    /\ pad.called
    /\ pad.formats = <<"Binary">>
    /\ pad.param_len = 3
    /\ pad.result.formats = <<"Binary", "Binary", "Binary">>

\* the arguments of the last bind and the prepared statement it named
BindPortalName == lastCall.args[1]

BindStatementName == lastCall.args[2]

BindParamFormats == lastCall.args[3]

BindRawParams == lastCall.args[4]

BindResultFormats == lastCall.args[5]

PadMessage(m, n) == <<"expected", m, "field format specifiers, but got", n>>

\* a bind that named a stored statement and supplied as many parameters as
\* the statement declares types
BindReachedPadding ==
    /\ lastCall.op = "bind"
    /\ statements[BindStatementName] # NoEntry
    /\ Len(statements[BindStatementName].param_types) = Len(BindRawParams)

\* C11: padding m formats against a count n fails exactly when m is none of
\* 0, 1 and n; bind sends the failure as one ProtocolViolation "expected m
\* field format specifiers, but got n", for the parameter formats against the
\* number of parameters and for the result formats against the number of
\* described columns
C11_PadFailureIsProtocolViolation ==
    BindReachedPadding =>
        LET m == Len(BindParamFormats)
            n == Len(BindRawParams)
            rm == Len(BindResultFormats)
            rn == Len(statements[BindStatementName].description)
        IN  /\ m \notin {0, 1, n}
                => events = <<<<"ProtocolViolation", PadMessage(m, n)>>>>
            /\ (m \in {0, 1, n} /\ rm \notin {0, 1, rn})
                => /\ events[1][1] # "BindComplete"
                   /\ events[1][1] = "ProtocolViolation"
                        => events = <<<<"ProtocolViolation", PadMessage(rm, rn)>>>>
            /\ (m \in {0, 1, n} /\ rm \in {0, 1, rn})
                => events[1][1] # "ProtocolViolation"

\* two parameter formats were supplied for one parameter
C11_Witness ==
    /\ BindReachedPadding
    /\ Len(BindParamFormats) = 2
    /\ Len(BindRawParams) = 1
    /\ events = <<<<"ProtocolViolation", PadMessage(2, 1)>>>>

\* C12: a bind of a stored statement with a number of raw parameters other
\* than the number of declared types sends one ProtocolViolation naming the
\* supplied count, the statement and the required count, no BindComplete,
\* and leaves the portals as they were
C12_CountMismatchIsProtocolViolation ==
    [][(/\ lastCall'.op = "bind"
        /\ statements[lastCall'.args[2]] # NoEntry
        /\ Len(statements[lastCall'.args[2]].param_types) # Len(lastCall'.args[4]))
        => /\ events' = <<<<"ProtocolViolation",
                <<"Bind message supplies", Len(lastCall'.args[4]),
                  "parameters, but prepared statement", lastCall'.args[2],
                  "requires", Len(statements[lastCall'.args[2]].param_types)>>>>>>
           /\ portals' = portals]_vars

\* one parameter was supplied to a statement that declares none, while the
\* portal named was already bound
C12_Witness ==
    /\ lastCall.op = "bind"
    /\ statements[BindStatementName] # NoEntry
    /\ Len(statements[BindStatementName].param_types) = 0
    /\ Len(BindRawParams) = 1
    /\ portals[BindPortalName] # NoEntry
    /\ events[1][1] = "ProtocolViolation"

\* the SELECT the last execute ran and the table it names
SelectedQuery == Last(ExecutedStatements.statements)

SelectedColumnsOfTable == catalog.tables[SelectedQuery.from[1][2]].columns

ScannedRecords == catalog.tables[SelectedQuery.from[1][2]].rows

ColumnNames(P) == {P[i].name : i \in DOMAIN P}

\* the selection C: identifiers as written, * as the names of P in order
RECURSIVE Selection(_, _)
Selection(items, P) ==
    IF items = <<>> THEN <<>>
    ELSE (IF Head(items)[1] = "Wildcard" THEN [i \in DOMAIN P |-> P[i].name]
          ELSE <<Head(items)[2]>>)
         \o Selection(Tail(items), P)

index_of(name, P) ==
    CHOOSE i \in DOMAIN P :
        P[i].name = name /\ \A k \in DOMAIN P : P[k].name = name => i <= k

\* a simple-query SELECT on an existing table went through without a fault
SelectedFromTable ==
    /\ lastCall.op = "execute"
    /\ lastCall.fault = "none"
    /\ ExecutedStatements.ok
    /\ ExecutedStatements.statements # <<>>
    /\ SelectedQuery.kind = "Query"
    /\ SelectedQuery.from[1][1] = "Table"
    /\ Len(SelectedQuery.from[1][2]) = 2
    /\ SelectedQuery.from[1][2] \in DOMAIN catalog.tables

\* C13: a SELECT of columns C, all of them columns of the table, sends one
\* RecordsSelected: a description of width |C| naming C in selection order,
\* one row per scanned record in scan order, field j of the row being the
\* record's field at index_of(C[j], P)
C13_ProjectionFollowsSelection ==
    SelectedFromTable =>
        LET P == SelectedColumnsOfTable
            C == Selection(SelectedQuery.projection, P)
        IN  Range(C) \subseteq ColumnNames(P)
            => /\ Len(events) = 2
               /\ events[1][1] = "RecordsSelected"
               /\ events[2] = QueryComplete
               /\ Len(events[1][2]) = Len(C)
               /\ \A j \in DOMAIN C : events[1][2][j][1] = C[j]
               /\ Len(events[1][3]) = Len(ScannedRecords)
               /\ \A i \in DOMAIN ScannedRecords :
                    /\ Len(events[1][3][i]) = Len(C)
                    /\ \A j \in DOMAIN C :
                        events[1][3][i][j] =
                            to_string(ScannedRecords[i][index_of(C[j], P)])

\* SELECT b, a was run over two different records
C13_Witness ==
    /\ SelectedFromTable
    /\ SelectedQuery.projection = <<Identifier("b"), Identifier("a")>>
    /\ Len(ScannedRecords) = 2
    /\ ScannedRecords[1] # ScannedRecords[2]
    /\ events[1][1] = "RecordsSelected"
    /\ events[1][3][1] = <<"2", "1">>

\* C14: a simple-query SELECT on an existing table that names columns the
\* table does not have sends one ColumnDoesNotExist listing them in
\* selection order, no RecordsSelected, and then QueryComplete
C14_UnknownColumnsReported ==
    SelectedFromTable =>
        LET P == SelectedColumnsOfTable
            C == Selection(SelectedQuery.projection, P)
        IN  ~(Range(C) \subseteq ColumnNames(P))
            => events = <<<<"ColumnDoesNotExist",
                            SelectSeq(C, LAMBDA name : name \notin ColumnNames(P))>>,
                          QueryComplete>>

\* SELECT d, a, c was run on a table of columns a and b
C14_Witness ==
    /\ SelectedFromTable
    /\ SelectedQuery.projection = <<Identifier("d"), Identifier("a"), Identifier("c")>>
    /\ events = <<<<"ColumnDoesNotExist", <<"d", "c">>>>, QueryComplete>>

\* C15: a simple-query SELECT whose FROM table name has one segment sends
\* FeatureNotSupported carrying the text, then QueryComplete
C15_OneSegmentIsFeatureNotSupported ==
    (/\ lastCall.op = "execute"
     /\ ExecutedStatements.ok
     /\ ExecutedStatements.statements # <<>>
     /\ SelectedQuery.kind = "Query"
     /\ SelectedQuery.from # <<>>
     /\ SelectedQuery.from[1][1] = "Table"
     /\ Len(SelectedQuery.from[1][2]) = 1)
    => events = <<<<"FeatureNotSupported", lastCall.args[1]>>, QueryComplete>>

\* C16: every parse_prepared_statement, describe_prepared_statement and
\* bind_prepared_statement_to_portal sends exactly one event, its terminal
\* success event or one error
C16_OneEventPerExtendedCall ==
    lastCall.op \in {"parse", "describe", "bind"}
    => /\ Len(events) = 1
       /\ events[1][1] \in {"ParseComplete", "PreparedStatementDescribed",
                            "BindComplete"}
            => lastCall.result = "Ok"

\* C17: execute_portal leaves every prepared statement and every portal of
\* the session as it was, the executed portal included
C17_ExecutePortalKeepsSession ==
    [][lastCall'.op = "execute_portal"
        => statements' = statements /\ portals' = portals]_vars

\* a portal bound to CREATE SCHEMA s was executed when s already existed and
\* is still stored
C17_Witness ==
    /\ lastCall.op = "execute_portal"
    /\ portals[lastCall.args[1]] # NoEntry
    /\ portals[lastCall.args[1]].stmt.kind = "CreateSchema"
    /\ events = <<<<"SchemaAlreadyExists", "s">>>>

\* C18: a successful Parse stores its statement under its name and leaves
\* every other statement and every portal as it was; a successful Bind
\* stores its portal under its name and leaves every other portal and every
\* statement as it was; no call removes a statement or a portal
C18_OverwriteOnlyTheNamedEntry ==
    [][/\ (lastCall'.op = "parse" /\ events' = <<<<"ParseComplete">>>>)
            => /\ statements'[lastCall'.args[1]] # NoEntry
               /\ statements'[lastCall'.args[1]].stmt = lastCall'.args[2][2][1]
               /\ statements'[lastCall'.args[1]].param_types = lastCall'.args[3]
               /\ \A n \in DOMAIN statements \ {lastCall'.args[1]} :
                    statements'[n] = statements[n]
               /\ portals' = portals
       /\ (lastCall'.op = "bind" /\ events' = <<<<"BindComplete">>>>)
            => /\ portals'[lastCall'.args[1]] # NoEntry
               /\ portals'[lastCall'.args[1]].statement_name = lastCall'.args[2]
               /\ \A q \in DOMAIN portals \ {lastCall'.args[1]} :
                    portals'[q] = portals[q]
               /\ statements' = statements
       /\ \A n \in DOMAIN statements :
            statements[n] # NoEntry => statements'[n] # NoEntry
       /\ \A q \in DOMAIN portals :
            portals[q] # NoEntry => portals'[q] # NoEntry]_vars

\* a Parse succeeded under a name a portal was already bound to, while both
\* names of statements and both names of portals are taken
C18_Witness ==
    /\ lastCall.op = "parse"
    /\ events = <<<<"ParseComplete">>>>
    /\ \A n \in DOMAIN statements : statements[n] # NoEntry
    /\ \A q \in DOMAIN portals : portals[q] # NoEntry
    /\ Cardinality(DOMAIN statements) = 2
    /\ \E q \in DOMAIN portals :
        /\ portals[q].statement_name = lastCall.args[1]
        /\ portals[q].stmt.kind # statements[lastCall.args[1]].stmt.kind

\* C19: no bind, successful or failed, changes a prepared statement: its
\* AST, param_types and description stay as they were
C19_BindKeepsPreparedStatement ==
    [][lastCall'.op = "bind" => statements' = statements]_vars

\* a statement with a placeholder was bound: the portal holds the statement
\* with the value in place, the prepared statement still has the placeholder
C19_Witness ==
    /\ lastCall.op = "bind"
    /\ events = <<<<"BindComplete">>>>
    /\ Placeholders(statements[BindStatementName].stmt) > 0
    /\ Placeholders(portals[BindPortalName].stmt) = 0

\* the error of one name of a DROP in catalog cat, <<>> when it resolves
\* and exists
DropError(cat, object_type, name) ==
    IF object_type = "Table" THEN
        IF Len(name) # 2 THEN <<<<"SyntaxError", TableIdTryFrom(name).message>>>>
        ELSE IF name[1] \notin cat.schemas THEN <<<<"SchemaDoesNotExist", name[1]>>>>
        ELSE IF name \notin DOMAIN cat.tables
        THEN <<<<"TableDoesNotExist", <<name[1], ".", name[2]>>>>>>
        ELSE <<>>
    ELSE
        IF Len(name) # 1 THEN <<<<"SyntaxError", SchemaIdTryFrom(name).message>>>>
        ELSE IF name[1] \notin cat.schemas THEN <<<<"SchemaDoesNotExist", name[1]>>>>
        ELSE <<>>

\* the error of the first name in list order that has one
RECURSIVE FirstDropError(_, _, _)
FirstDropError(cat, object_type, names) ==
    IF names = <<>> THEN <<>>
    ELSE IF DropError(cat, object_type, Head(names)) # <<>>
    THEN DropError(cat, object_type, Head(names))
    ELSE FirstDropError(cat, object_type, Tail(names))

\* the statement a text of one statement holds
StatementOf(text) == text[2][1]

\* C20: a DROP TABLE or DROP SCHEMA with a name that does not resolve or
\* does not exist sends the error of the first such name only, and the
\* catalog stays as it was: the names before it are not dropped
C20_FailedDropDropsNothing ==
    [][(/\ lastCall'.op = "execute"
        /\ lastCall'.args[1][1] = "sql"
        /\ Len(lastCall'.args[1][2]) = 1
        /\ StatementOf(lastCall'.args[1]).kind = "Drop"
        /\ StatementOf(lastCall'.args[1]).object_type \in {"Table", "Schema"}
        /\ FirstDropError(catalog, StatementOf(lastCall'.args[1]).object_type,
                          StatementOf(lastCall'.args[1]).names) # <<>>)
        => /\ events' =
                FirstDropError(catalog, StatementOf(lastCall'.args[1]).object_type,
                               StatementOf(lastCall'.args[1]).names)
                \o <<QueryComplete>>
           /\ catalog' = catalog]_vars

\* DROP TABLE s.t, s.u was refused for s.u and s.t is still there
C20_Witness ==
    /\ lastCall.op = "execute"
    /\ lastCall.args[1] = TextOf(<<DropOf("Table", <<TableST, TableSU>>)>>)
    /\ events = <<<<"TableDoesNotExist", <<"s", ".", "u">>>>, QueryComplete>>
    /\ TableST \in DOMAIN catalog.tables


(***************************************************************************)
(* Planning of definitions.                                                *)
(***************************************************************************)
CallText == lastCall.args[1]

\* the one statement of the text execute was called with, if it had one
SoleStatement(text) == IF text[1] = "sql" /\ Len(text[2]) = 1 THEN text[2][1] ELSE NoEntry

SupportedDataType(data_type) ==
    \/ data_type[1] \in {"SmallInt", "Int", "BigInt", "Boolean", "Char", "Varchar"}
    \/ data_type[1] = "Custom" /\ data_type[2] \in {"serial", "smallserial", "bigserial"}

Unsupported(columns) == {i \in 1..Len(columns) : ~SupportedDataType(columns[i].data_type)}

FirstUnsupported(columns) ==
    CHOOSE i \in Unsupported(columns) : \A j \in Unsupported(columns) : i <= j

TypeName(data_type) == IF data_type[1] = "Custom" THEN data_type[2] ELSE data_type[1]

\* what a simple CREATE TABLE of a two-part name leaves behind, by what
\* table_exists said of the catalog it ran on
CreateTableOutcome(cat, stmt, post, sent, result) ==
    LET found == table_exists(cat, stmt.name[1], stmt.name[2]) IN
    CASE found = "None" ->
            /\ sent = <<<<"SchemaDoesNotExist", stmt.name[1]>>, QueryComplete>>
            /\ post = cat /\ result = "Ok"
      [] found = "SomeSome" ->
            /\ sent = <<<<"TableAlreadyExists", <<stmt.name[1], ".", stmt.name[2]>>>>,
                        QueryComplete>>
            /\ post = cat /\ result = "Ok"
      [] Unsupported(stmt.columns) # {} ->
            /\ sent = <<<<"FeatureNotSupported",
                          <<TypeName(stmt.columns[FirstUnsupported(stmt.columns)].data_type),
                            "type is not supported">>>>, QueryComplete>>
            /\ post = cat /\ result = "Ok"
      [] OTHER ->
            \/ result = "Err" /\ post = cat /\ sent = <<>>
            \/ /\ result = "Ok"
               /\ sent = <<<<"TableCreated">>, QueryComplete>>
               /\ post.schemas = cat.schemas
               /\ WithoutTables(post.tables, {TableKey(stmt.name)}) = cat.tables
               /\ [i \in 1..Len(stmt.columns) |->
                        post.tables[TableKey(stmt.name)].columns[i].name]
                    = [i \in 1..Len(stmt.columns) |-> stmt.columns[i].name]
               /\ Len(post.tables[TableKey(stmt.name)].columns) = Len(stmt.columns)

\* C21: a simple CREATE TABLE schema.table sends SchemaDoesNotExist when the
\* schema is missing and TableAlreadyExists when the table is there, and
\* creates nothing; otherwise it creates the table with the columns in
\* declaration order, unless a column type is unsupported: then it sends
\* one FeatureNotSupported naming the first such type and creates nothing.
C21_CreateTableOutcomes ==
    [][ ( /\ lastCall'.op = "execute"
          /\ SoleStatement(lastCall'.args[1]) # NoEntry
          /\ SoleStatement(lastCall'.args[1]).kind = "CreateTable" )
        => CreateTableOutcome(catalog, SoleStatement(lastCall'.args[1]), catalog',
                              events', lastCall'.result) ]_vars

C21_Witness ==
    /\ lastCall.op = "execute"
    /\ CallText = TextOf(<<CreateTableOf(TableST, ColumnsMixed)>>)
    /\ events = <<<<"FeatureNotSupported", <<"money", "type is not supported">>>>,
                  QueryComplete>>
    /\ catalog = SchemaOnly


\* what a simple CREATE SCHEMA of a one-part name leaves behind
CreateSchemaOutcome(cat, name, post, sent, result) ==
    IF name \in cat.schemas
    THEN /\ sent = <<<<"SchemaAlreadyExists", name>>, QueryComplete>>
         /\ post = cat
         /\ result = "Ok"
    ELSE \/ result = "Err" /\ post = cat /\ sent = <<>>
         \/ /\ result = "Ok"
            /\ sent = <<<<"SchemaCreated">>, QueryComplete>>
            /\ post = [cat EXCEPT !.schemas = @ \cup {name}]

\* C22: a simple CREATE SCHEMA of a schema that exists sends
\* SchemaAlreadyExists, runs no command (so no command can fail) and keeps
\* the catalog; of a schema that does not exist it creates exactly that
\* schema.  No call sends SchemaCreated without adding a schema.
C22_CreateSchemaOutcomes ==
    [][ /\ ( /\ lastCall'.op = "execute"
             /\ SoleStatement(lastCall'.args[1]) # NoEntry
             /\ SoleStatement(lastCall'.args[1]).kind = "CreateSchema" )
           => CreateSchemaOutcome(catalog, SoleStatement(lastCall'.args[1]).schema_name[1],
                                  catalog', events', lastCall'.result)
        /\ ( lastCall'.op = "execute" /\ <<"SchemaCreated">> \in Range(events') )
           => /\ catalog.schemas \subseteq catalog'.schemas
              /\ Cardinality(catalog'.schemas) = Cardinality(catalog.schemas) + 1 ]_vars

C22_Witness ==
    /\ lastCall.op = "execute"
    /\ CallText = TextOf(<<CreateSchemaS>>)
    /\ events = <<<<"SchemaAlreadyExists", "s">>, QueryComplete>>
    /\ "s" \in catalog.schemas


(***************************************************************************)
(* Dispatch of what the processor passes through or rejects.               *)
(***************************************************************************)
PassedThroughEvent(statement, raw_sql_query) ==
    CASE statement.kind = "StartTransaction" -> <<"TransactionStarted">>
      [] statement.kind = "SetVariable" -> <<"VariableSet">>
      [] OTHER -> <<"FeatureNotSupported", raw_sql_query>>

\* C23: a simple StartTransaction sends TransactionStarted, a SetVariable
\* sends VariableSet and a statement of another kind the processor passes
\* through (not Query, Update, Delete) sends FeatureNotSupported carrying
\* the raw SQL: one event, the catalog kept.  When the processor rejects a
\* statement, only the processor's own error is sent and the catalog is kept.
C23_DispatchOfUnplanned ==
    [][ ( lastCall'.op = "execute" /\ SoleStatement(lastCall'.args[1]) # NoEntry )
        => /\ SoleStatement(lastCall'.args[1]).kind
                \notin {"CreateTable", "CreateSchema", "Drop", "Insert", "Query", "Update", "Delete"}
              => /\ events' = <<PassedThroughEvent(SoleStatement(lastCall'.args[1]),
                                                   lastCall'.args[1]), QueryComplete>>
                 /\ catalog' = catalog
                 /\ lastCall'.result = "Ok"
           /\ Process(catalog, SoleStatement(lastCall'.args[1])).result = "Err"
              => /\ events' = Process(catalog, SoleStatement(lastCall'.args[1])).events
                                \o <<QueryComplete>>
                 /\ Len(events') = 2
                 /\ catalog' = catalog
                 /\ lastCall'.result = "Ok" ]_vars

C23_Witness ==
    /\ lastCall.op = "execute"
    /\ CallText = TextOf(<<[kind |-> "StartTransaction"]>>)
    /\ events = <<<<"TransactionStarted">>, QueryComplete>>


(***************************************************************************)
(* The order of the checks of a bind.                                      *)
(***************************************************************************)
\* the format the i-th of n parameters is read in
FormatOf(formats, i) ==
    IF formats = <<>> THEN "Text" ELSE IF Len(formats) = 1 THEN formats[1] ELSE formats[i]

Undecodable(raw_params, formats) ==
    { i \in 1..Len(raw_params) :
        raw_params[i][1] = "Some" /\ raw_params[i][2][1] # FormatOf(formats, i) }

Unbound(stmt, n) ==
    { i \in DOMAIN StatementExprs(stmt) :
        StatementExprs(stmt)[i][1] = "Param" /\ StatementExprs(stmt)[i][2] > n }

\* the event of the first check that fails, BindComplete if none does
FirstBindFailure(prepared, statement_name, param_formats, raw_params, result_formats) ==
    IF prepared = NoEntry THEN <<"PreparedStatementDoesNotExist", statement_name>>
    ELSE IF Len(prepared.param_types) # Len(raw_params)
    THEN <<"ProtocolViolation",
           <<"Bind message supplies", Len(raw_params),
             "parameters, but prepared statement", statement_name,
             "requires", Len(prepared.param_types)>>>>
    ELSE IF Len(param_formats) \notin {0, 1, Len(raw_params)}
    THEN <<"ProtocolViolation", PadMessage(Len(param_formats), Len(raw_params))>>
    ELSE IF Undecodable(raw_params, param_formats) # {}
    THEN LET i == CHOOSE i \in Undecodable(raw_params, param_formats) :
                    \A j \in Undecodable(raw_params, param_formats) : i <= j
         IN <<"InvalidParameterValue",
              <<"decode", prepared.param_types[i], FormatOf(param_formats, i)>>>>
    ELSE IF Unbound(prepared.stmt, Len(raw_params)) # {}
    THEN <<"BinderError", Len(raw_params)>>
    ELSE IF Len(result_formats) \notin {0, 1, Len(prepared.description)}
    THEN <<"ProtocolViolation",
           PadMessage(Len(result_formats), Len(prepared.description))>>
    ELSE <<"BindComplete">>

\* C24: a bind sends one event, that of the first failing check in the
\* order statement lookup, parameter count, parameter formats, decoding of
\* the parameters in their order, binder, result formats; BindComplete when
\* none fails.
C24_FirstFailingCheckIsReported ==
    [][ lastCall'.op = "bind"
        => events' = << FirstBindFailure(statements[lastCall'.args[2]], lastCall'.args[2],
                            lastCall'.args[3], lastCall'.args[4], lastCall'.args[5]) >> ]_vars

\* both parameters fail to decode and the result formats do not fit: the
\* first parameter is the one reported
C24_Witness ==
    /\ lastCall.op = "bind"
    /\ statements[BindStatementName] # NoEntry
    /\ statements[BindStatementName].param_types = <<"Integer", "SmallInt">>
    /\ BindParamFormats = <<"Text", "Binary">>
    /\ BindRawParams = <<<<"Some", <<"Binary", 1>>>>, <<"Some", <<"Text", 2>>>>>>
    /\ Len(BindResultFormats) = 3
    /\ events = <<<<"InvalidParameterValue", <<"decode", "Integer", "Text">>>>>>


\* C25: a bind that does not end in BindComplete leaves the session as it
\* was: no portal is created, and the portal named keeps its statement
\* name, its bound statement and its result formats.
C25_FailedBindKeepsSession ==
    [][ ( lastCall'.op = "bind" /\ <<"BindComplete">> \notin Range(events') )
        => portals' = portals /\ statements' = statements ]_vars

\* the result formats do not fit while p1 holds an earlier bind
C25_Witness ==
    /\ lastCall.op = "bind"
    /\ events = <<<<"ProtocolViolation", PadMessage(3, 2)>>>>
    /\ portals["p1"] # NoEntry
    /\ portals["p1"].result_formats = <<"Binary", "Binary">>


\* C28: the portal a bind stores holds as many result formats as the row
\* description of the prepared statement it was bound from has columns at
\* that bind: none when that statement is not a Query.
C28_ResultFormatsFitDescription ==
    [][ ( lastCall'.op = "bind" /\ <<"BindComplete">> \in Range(events') )
        => /\ portals'[lastCall'.args[1]] # NoEntry
           /\ Len(portals'[lastCall'.args[1]].result_formats)
                = Len(statements[lastCall'.args[2]].description)
           /\ statements[lastCall'.args[2]].stmt.kind # "Query"
                => portals'[lastCall'.args[1]].result_formats = <<>> ]_vars

\* one result format was given for a description of two columns
C28_Witness ==
    /\ lastCall.op = "bind"
    /\ events = <<<<"BindComplete">>>>
    /\ BindResultFormats = <<"Binary">>
    /\ Len(statements[BindStatementName].description) = 2
    /\ portals[BindPortalName].result_formats = <<"Binary", "Binary">>


(***************************************************************************)
(* Portals and prepared statements apart.                                  *)
(***************************************************************************)
\* C26: a portal holds the statement it was bound with: a parse, of the
\* name it was bound from as of any other, leaves every portal as it was,
\* and execute_portal processes the statement the portal holds, whatever
\* the session holds under the statement's name by then.
C26_PortalIsSnapshot ==
    [][ /\ lastCall'.op = "parse" => portals' = portals
        /\ ( lastCall'.op = "execute_portal" /\ portals[lastCall'.args[1]] # NoEntry )
           => LET held == portals[lastCall'.args[1]].stmt
                  run == ProcessStatement(FormatStatement(held), catalog, held,
                                          lastCall'.fault)
              IN  events' = run.events /\ catalog' = run.catalog ]_vars

\* p1 was bound from CREATE SCHEMA s; s1 has since been parsed again as an
\* INSERT, and p1 still creates the schema
C26_Witness ==
    /\ lastCall.op = "execute_portal"
    /\ portals["p1"] # NoEntry
    /\ portals["p1"].statement_name = "s1"
    /\ portals["p1"].stmt = CreateSchemaS
    /\ statements["s1"] # NoEntry
    /\ statements["s1"].stmt.kind = "Insert"
    /\ events = <<<<"SchemaCreated">>>>
    /\ "s" \in catalog.schemas

\* C27: a parse that does not end in ParseComplete (the text does not
\* parse, or the description of a Query fails) stores nothing: the
\* statement held under the name, and every other, stays as it was.
C27_FailedParseStoresNothing ==
    [][ ( lastCall'.op = "parse" /\ <<"ParseComplete">> \notin Range(events') )
        => statements' = statements /\ portals' = portals ]_vars

\* a SELECT of an unknown column failed to be described while s1 held an
\* earlier statement
C27_Witness ==
    /\ lastCall.op = "parse"
    /\ lastCall.args[2]
         = TextOf(<<SelectFrom(<<Identifier("c")>>, <<<<"Table", TableST>>>>)>>)
    /\ events # <<>>
    /\ events[1][1] = "ColumnDoesNotExist"
    /\ statements["s1"] # NoEntry
    /\ statements["s1"].stmt = CreateSchemaS

\* C30: describe and bind of a statement name that holds nothing send one
\* PreparedStatementDoesNotExist with the name, execute_portal of a portal
\* name that holds nothing sends one PortalDoesNotExist with the name; the
\* call returns Ok, and session and catalog stay as they were.
C30_UnknownNameIsOneError ==
    [][ /\ ( lastCall'.op = "describe" /\ statements[lastCall'.args[1]] = NoEntry )
           => /\ events' = <<<<"PreparedStatementDoesNotExist", lastCall'.args[1]>>>>
              /\ lastCall'.result = "Ok"
              /\ UNCHANGED <<catalog, statements, portals>>
        /\ ( lastCall'.op = "bind" /\ statements[lastCall'.args[2]] = NoEntry )
           => /\ events' = <<<<"PreparedStatementDoesNotExist", lastCall'.args[2]>>>>
              /\ lastCall'.result = "Ok"
              /\ UNCHANGED <<catalog, statements, portals>>
        /\ ( lastCall'.op = "execute_portal" /\ portals[lastCall'.args[1]] = NoEntry )
           => /\ events' = <<<<"PortalDoesNotExist", lastCall'.args[1]>>>>
              /\ lastCall'.result = "Ok"
              /\ UNCHANGED <<catalog, statements, portals>> ]_vars

\* s1 is described while the session holds no statement
C30_Witness ==
    /\ lastCall.op = "describe"
    /\ statements["s1"] = NoEntry
    /\ events = <<<<"PreparedStatementDoesNotExist", "s1">>>>


(***************************************************************************)
(* Texts of several statements.                                            *)
(***************************************************************************)
Several(text) == text[1] = "sql" /\ Len(text[2]) >= 2

FinalStatement(text) == text[2][Len(text[2])]

\* C29: of a text that parses to several statements only the last is
\* processed: execute leaves the catalog and the events that executing the
\* last statement alone leaves, with exactly one QueryComplete unless a
\* command returned a system error, and a parse stores the last statement.
C29_OnlyLastStatementProcessed ==
    [][ /\ ( lastCall'.op = "execute" /\ Several(lastCall'.args[1]) )
           => LET alone == ExecuteCall(catalog,
                                       TextOf(<<FinalStatement(lastCall'.args[1])>>),
                                       lastCall'.fault)
              IN  /\ catalog' = alone.catalog
                  /\ events' = alone.events
                  /\ lastCall'.result # "Err" => CountOf(QueryComplete, events') = 1
        /\ ( /\ lastCall'.op = "parse"
             /\ Several(lastCall'.args[2])
             /\ <<"ParseComplete">> \in Range(events') )
           => statements'[lastCall'.args[1]].stmt = FinalStatement(lastCall'.args[2]) ]_vars

====
